---- MODULE Spec2Model ----
(***************************************************************************)
(* Model of the JIZT Dispatcher: the summary store (SummaryDAOPostgresql), *)
(* the Dispatcher's Kafka consumer loop (ConsumerLoop.run) and the stage   *)
(* workers that publish to the dispatcher topic.                           *)
(*                                                                         *)
(* The store is the three tables jizt.source, jizt.summary and             *)
(* jizt.id_raw_id_preprocessed.  Every DAO method runs its statements in   *)
(* one transaction: an exception raised by a statement is caught by the    *)
(* method, logged, and the connection is closed without commit, so the     *)
(* method leaves the tables as they were.                                  *)
(***************************************************************************)
EXTENDS Integers, Sequences, FiniteSets, TLC

(***************************************************************************)
(* Bounds of the model.                                                    *)
(***************************************************************************)
MaxCalls == 3
MaxEvents == 2
MaxTicks == 1
MaxFlowEvents == 3
MaxPosts == 1
MessagesPerRequest == 5
TickSeconds == 241

(***************************************************************************)
(* Program constants.                                                      *)
(***************************************************************************)
CACHE_CLEANUP_INTERVAL_SECONDS == 60
OLDER_THAN_SECONDS == 240

\* Python's None for a nullable text column / a nullable timestamp.
None == "None"
NoTime == 0 - 1

\* SummaryStatus values
PREPROCESSING == "preprocessing"
ENCODING == "encoding"
SUMMARIZING == "summarizing"
POSTPROCESSING == "postprocessing"
COMPLETED == "completed"

T5_LARGE == "t5-large"
ENGLISH == "en"

TEXT_ENCODING == "text-encoding-topic"

(***************************************************************************)
(* Small helpers on tables (functions from primary key to row).            *)
(***************************************************************************)
Restrict(f, S) == [x \in S |-> f[x]]

Put(f, k, v) == [x \in (DOMAIN f) \cup {k} |-> IF x = k THEN v ELSE f[x]]

\* An optional value: <<>> is Python's None, <<v>> is the value v.
Some(v) == <<v>>
Nothing == <<>>

\* A warnings dict: keys are field names, values are lists of messages.
EmptyDict == [k \in {} |-> <<>>]

(***************************************************************************)
(* Identifiers.  hashlib.sha256(...).hexdigest() is modelled as a          *)
(* collision-free digest of the string it is given.                        *)
(***************************************************************************)
Sha256(text) == "#" \o text

RECURSIVE JoinItems(_)
JoinItems(items) ==
    IF items = <<>> THEN ""
    ELSE "'" \o items[1][1] \o "': " \o items[1][2]
         \o (IF Len(items) > 1 THEN ", " ELSE "") \o JoinItems(Tail(items))

\* str(params) of a dict, given as the sequence of its items in insertion
\* order; every item is <<key, repr(value)>>.
DictStr(params) == "{" \o JoinItems(params) \o "}"

get_unique_key(source, model, params) ==
    Sha256(source \o model \o DictStr(params))

\* SummaryDAOPostgresql._get_unique_key
source_unique_key(text) == Sha256(text)

(***************************************************************************)
(* Referential integrity.  jizt.summary.source_id references jizt.source   *)
(* and jizt.id_raw_id_preprocessed.id_preprocessed references              *)
(* jizt.summary, both ON DELETE CASCADE ON UPDATE CASCADE.                 *)
(***************************************************************************)
Cascade(d) ==
    LET sums == {s \in DOMAIN d.summary :
                    d.summary[s].source_id \in DOMAIN d.source}
        ids  == {r \in DOMAIN d.id_raw_id_preprocessed :
                    d.id_raw_id_preprocessed[r].id_preprocessed \in sums}
    IN  [source |-> d.source,
         summary |-> Restrict(d.summary, sums),
         id_raw_id_preprocessed |-> Restrict(d.id_raw_id_preprocessed, ids)]

\* A variant of DeleteSources for a schema without ON DELETE CASCADE: the
\* summaries and bindings of the deleted sources stay.
DeleteSources_nocascade(d, S) ==
    [d EXCEPT !.source = Restrict(@, (DOMAIN @) \ S)]

\* DELETE FROM jizt.source WHERE source_id IN S
DeleteSources(d, S) ==
    Cascade([d EXCEPT !.source = Restrict(@, (DOMAIN @) \ S)])

\* DELETE FROM jizt.summary WHERE summary_id IN S
DeleteSummaries(d, S) ==
    Cascade([d EXCEPT !.summary = Restrict(@, (DOMAIN @) \ S)])

\* The source_id selected by (SELECT source_id FROM jizt.summary
\*                            WHERE summary_id = id): a set of 0 or 1 ids.
SourceIdOfSummary(d, id) ==
    IF id \in DOMAIN d.summary THEN {d.summary[id].source_id} ELSE {}

\* A variant of the UPDATE without its WHERE clause: every binding gets the
\* new last_accessed.
Touch_all(d, id, t) ==
    [d EXCEPT !.id_raw_id_preprocessed =
        [r \in DOMAIN d.id_raw_id_preprocessed |->
            [d.id_raw_id_preprocessed[r] EXCEPT !.last_accessed = t]]]

\* UPDATE ... SET last_accessed = now WHERE id_raw = id
Touch(d, id, t) ==
    IF id \in DOMAIN d.id_raw_id_preprocessed
    THEN [d EXCEPT !.id_raw_id_preprocessed[id].last_accessed = t]
    ELSE d

EmptyDB ==
    [source |-> [k \in {} |-> 0],
     summary |-> [k \in {} |-> 0],
     id_raw_id_preprocessed |-> [k \in {} |-> 0]]

(***************************************************************************)
(* SummaryDAOPostgresql.  Every operator takes the tables d and returns    *)
(* the tables after the method (and what the method returns, when the      *)
(* caller uses it).  t is datetime.now().                                  *)
(***************************************************************************)

\* get_summary: the joined row that id's binding targets, None when there
\* is no binding; it sets last_accessed of id's binding.
SummaryFound(d, id) ==
    /\ id \in DOMAIN d.id_raw_id_preprocessed
    /\ d.id_raw_id_preprocessed[id].id_preprocessed \in DOMAIN d.summary
    /\ d.summary[d.id_raw_id_preprocessed[id].id_preprocessed].source_id
           \in DOMAIN d.source

SummaryRow(d, id) == d.summary[d.id_raw_id_preprocessed[id].id_preprocessed]

\* The second component of the tuple get_summary returns: the warnings of
\* the summary, None when it has none or when the summary does not exist.
SummaryWarnings(d, id) ==
    IF SummaryFound(d, id) THEN SummaryRow(d, id).warnings ELSE Nothing

get_summary(d, id, t) ==
    [db |-> Touch(d, id, t),
     found |-> SummaryFound(d, id),
     summary_id |-> IF SummaryFound(d, id)
                    THEN d.id_raw_id_preprocessed[id].id_preprocessed
                    ELSE None,
     source |-> IF SummaryFound(d, id)
                THEN d.source[SummaryRow(d, id).source_id].content
                ELSE None,
     status |-> IF SummaryFound(d, id) THEN SummaryRow(d, id).status ELSE None,
     warnings |-> SummaryWarnings(d, id)]

\* insert_summary(summary, cache, warnings): the source row when it is not
\* there yet, the summary row, and the binding (id_, id_, cache, now).  A
\* summary row or a binding with this id already there is a unique
\* violation: nothing is committed.
insert_summary(d, summary, cache, warnings, t) ==
    LET source_id == source_unique_key(summary.source)
        src == IF source_id \in DOMAIN d.source
               THEN d.source
               ELSE Put(d.source, source_id,
                        [content |-> summary.source,
                         content_length |-> Len(summary.source)])
        row == [source_id |-> source_id,
                summary |-> summary.output,
                model_name |-> summary.model,
                params |-> summary.params,
                status |-> summary.status,
                started_at |-> summary.started_at,
                ended_at |-> summary.ended_at,
                language_tag |-> summary.language,
                request_count |-> 0,
                warnings |-> warnings]
    IN  IF \/ summary.id_ \in DOMAIN d.summary
           \/ summary.id_ \in DOMAIN d.id_raw_id_preprocessed
        THEN d
        ELSE [source |-> src,
              summary |-> Put(d.summary, summary.id_, row),
              id_raw_id_preprocessed |->
                  Put(d.id_raw_id_preprocessed, summary.id_,
                      [id_preprocessed |-> summary.id_,
                       cache |-> cache,
                       last_accessed |-> t])]

\* summary_exists: sets last_accessed, then tells whether id has a binding.
summary_exists(d, id, t) ==
    [db |-> Touch(d, id, t), exists |-> id \in DOMAIN d.id_raw_id_preprocessed]

\* A variant of update_summary that stamps ended_at on every update.
update_summary_stamped(d, id, cols, t) ==
    LET d1 == summary_exists(d, id, t).db
        target == d1.id_raw_id_preprocessed[id].id_preprocessed
        old == d1.summary[target]
        new == [c \in DOMAIN old |->
                   IF c \in DOMAIN cols THEN cols[c]
                   ELSE IF c = "ended_at" THEN t ELSE old[c]]
        d2 == [d1 EXCEPT !.summary[target] = new]
    IN  IF summary_exists(d, id, t).exists
        THEN [db |-> get_summary(d2, id, t).db, found |-> TRUE]
        ELSE [db |-> d1, found |-> FALSE]

\* update_summary(id_, **kwargs): cols maps column names to new values.
\* Returns None (found = FALSE) when id has no binding.
update_summary(d, id, cols, t) ==
    LET d1 == summary_exists(d, id, t).db
        target == d1.id_raw_id_preprocessed[id].id_preprocessed
        old == d1.summary[target]
        new == [c \in DOMAIN old |->
                   IF c \in DOMAIN cols THEN cols[c] ELSE old[c]]
        d2 == [d1 EXCEPT !.summary[target] = new]
    IN  IF summary_exists(d, id, t).exists
        THEN [db |-> get_summary(d2, id, t).db, found |-> TRUE]
        ELSE [db |-> d1, found |-> FALSE]

\* update_source(old_source, new_source, old_summary_id, new_summary_id)
UpdateSourceRow(d, old_source_id, new_source_id, new_source) ==
    \* UPDATE jizt.source SET source_id, content, content_length
    \* WHERE source_id = old_source_id   (ON UPDATE CASCADE to jizt.summary)
    IF old_source_id \notin DOMAIN d.source
    THEN [ok |-> TRUE, db |-> d]
    ELSE IF new_source_id # old_source_id /\ new_source_id \in DOMAIN d.source
    THEN [ok |-> FALSE, db |-> d]
    ELSE [ok |-> TRUE,
          db |-> [d EXCEPT
                   !.source =
                       Put(Restrict(@, (DOMAIN @) \ {old_source_id}),
                           new_source_id,
                           [content |-> new_source,
                            content_length |-> Len(new_source)]),
                   !.summary =
                       [s \in DOMAIN @ |->
                          IF @[s].source_id = old_source_id
                          THEN [@[s] EXCEPT !.source_id = new_source_id]
                          ELSE @[s]]]]

UpdateSummaryId(d, old_summary_id, new_summary_id) ==
    \* UPDATE jizt.summary SET summary_id = new WHERE summary_id = old
    \* (ON UPDATE CASCADE to jizt.id_raw_id_preprocessed)
    IF old_summary_id \notin DOMAIN d.summary
    THEN [ok |-> TRUE, db |-> d]
    ELSE IF new_summary_id # old_summary_id
            /\ new_summary_id \in DOMAIN d.summary
    THEN [ok |-> FALSE, db |-> d]
    ELSE [ok |-> TRUE,
          db |-> [d EXCEPT
                   !.summary =
                       Put(Restrict(@, (DOMAIN @) \ {old_summary_id}),
                           new_summary_id, d.summary[old_summary_id]),
                   !.id_raw_id_preprocessed =
                       [r \in DOMAIN @ |->
                          IF @[r].id_preprocessed = old_summary_id
                          THEN [@[r] EXCEPT
                                   !.id_preprocessed = new_summary_id]
                          ELSE @[r]]]]

InsertPreprocessedId(d, old_summary_id, new_summary_id, t) ==
    \* INSERT INTO jizt.id_raw_id_preprocessed
    \* SELECT new, new, cache, now FROM jizt.id_raw_id_preprocessed
    \* WHERE id_raw = old
    IF old_summary_id \notin DOMAIN d.id_raw_id_preprocessed
    THEN [ok |-> TRUE, db |-> d]
    ELSE IF \/ new_summary_id \in DOMAIN d.id_raw_id_preprocessed
            \/ new_summary_id \notin DOMAIN d.summary
    THEN [ok |-> FALSE, db |-> d]
    ELSE [ok |-> TRUE,
          db |-> [d EXCEPT !.id_raw_id_preprocessed =
                     Put(@, new_summary_id,
                         [id_preprocessed |-> new_summary_id,
                          cache |-> @[old_summary_id].cache,
                          last_accessed |-> t])]]

update_source(d, old_source, new_source, old_summary_id, new_summary_id, t) ==
    LET s1 == UpdateSourceRow(d, source_unique_key(old_source),
                              source_unique_key(new_source), new_source)
        s2 == UpdateSummaryId(s1.db, old_summary_id, new_summary_id)
        s3 == InsertPreprocessedId(s2.db, old_summary_id, new_summary_id, t)
    IN  IF s1.ok /\ s2.ok /\ s3.ok THEN s3.db ELSE d

\* A variant of update_preprocessed_id whose SQL_UPDATE_CACHE has no
\* "AND cache = FALSE": it copies raw_id's flag over the target's flag.
update_preprocessed_id_overwrite(d, raw_id, new_preprocessed_id, t) ==
    LET ids == d.id_raw_id_preprocessed
        cache == ids[raw_id].cache
        d1 == [d EXCEPT !.id_raw_id_preprocessed[raw_id] =
                  [@ EXCEPT !.id_preprocessed = new_preprocessed_id,
                            !.last_accessed = t]]
        d2 == IF new_preprocessed_id \in DOMAIN d1.id_raw_id_preprocessed
              THEN [d1 EXCEPT !.id_raw_id_preprocessed[new_preprocessed_id] =
                       [@ EXCEPT !.cache = cache, !.last_accessed = t]]
              ELSE d1
    IN  IF raw_id \notin DOMAIN ids THEN d
        ELSE IF new_preprocessed_id \notin DOMAIN d.summary THEN d
        ELSE DeleteSources(d2, SourceIdOfSummary(d2, raw_id))

\* update_preprocessed_id(raw_id, new_preprocessed_id): repoint raw_id's
\* binding, pass its cache flag on to the binding of the new id when that
\* one is FALSE, and delete the source (and by cascade the summary) that
\* was stored under raw_id.  Nothing is done when raw_id has no binding; a
\* new id without summary row is a foreign key violation.
update_preprocessed_id(d, raw_id, new_preprocessed_id, t) ==
    LET ids == d.id_raw_id_preprocessed
        cache == ids[raw_id].cache
        d1 == [d EXCEPT !.id_raw_id_preprocessed[raw_id] =
                  [@ EXCEPT !.id_preprocessed = new_preprocessed_id,
                            !.last_accessed = t]]
        d2 == IF /\ new_preprocessed_id \in DOMAIN d1.id_raw_id_preprocessed
                 /\ ~d1.id_raw_id_preprocessed[new_preprocessed_id].cache
              THEN [d1 EXCEPT !.id_raw_id_preprocessed[new_preprocessed_id] =
                       [@ EXCEPT !.cache = cache, !.last_accessed = t]]
              ELSE d1
    IN  IF raw_id \notin DOMAIN ids THEN d
        ELSE IF new_preprocessed_id \notin DOMAIN d.summary THEN d
        ELSE DeleteSources(d2, SourceIdOfSummary(d2, raw_id))

\* A variant of update_cache_true that sets the flag of id's own binding
\* only, not the one of the binding of the id it is bound to.
update_cache_true_own(d, id, t) ==
    LET ids == d.id_raw_id_preprocessed
    IN  [d EXCEPT !.id_raw_id_preprocessed =
            [r \in DOMAIN ids |->
                IF ~ids[r].cache /\ r = id
                THEN [ids[r] EXCEPT !.cache = TRUE, !.last_accessed = t]
                ELSE ids[r]]]

\* update_cache_true(id_): set cache of id's binding, and of the binding
\* whose id_raw is the id that id is bound to, when they are FALSE.
update_cache_true(d, id, t) ==
    LET ids == d.id_raw_id_preprocessed
        targets == {id} \cup (IF id \in DOMAIN ids
                              THEN {ids[id].id_preprocessed} ELSE {})
    IN  [d EXCEPT !.id_raw_id_preprocessed =
            [r \in DOMAIN ids |->
                IF ~ids[r].cache /\ r \in targets
                THEN [ids[r] EXCEPT !.cache = TRUE, !.last_accessed = t]
                ELSE ids[r]]]

\* increment_summary_count(id_): returns the new count, None when id has
\* no binding (cur.fetchone()[0] raises, the method logs it).
increment_summary_count(d, id) ==
    IF id \in DOMAIN d.id_raw_id_preprocessed
    THEN [db |-> [d EXCEPT
                    !.summary[d.id_raw_id_preprocessed[id].id_preprocessed]
                        .request_count = @ + 1],
          count |-> Some(SummaryRow(d, id).request_count + 1)]
    ELSE [db |-> d, count |-> Nothing]

\* delete_if_not_cache(id_)
delete_if_not_cache(d, id) ==
    LET ids == d.id_raw_id_preprocessed
        preprocessed_id == ids[id].id_preprocessed
        d1 == [d EXCEPT !.id_raw_id_preprocessed =
                  Restrict(@, (DOMAIN @) \ {id})]
    IN  IF id \in DOMAIN ids /\ ~ids[id].cache
        THEN IF id = preprocessed_id
             THEN DeleteSources(d1, SourceIdOfSummary(d1, preprocessed_id))
             ELSE IF /\ preprocessed_id \in DOMAIN d1.id_raw_id_preprocessed
                     /\ ~d1.id_raw_id_preprocessed[preprocessed_id].cache
             THEN DeleteSources(d1, SourceIdOfSummary(d1, preprocessed_id))
             ELSE d1
        ELSE d

\* cleanup_cache(older_than_seconds).  The last statement has one %s
\* placeholder and is given one argument per distinct source_id returned:
\* with two or more the statement raises and nothing is committed.
ExpiredIds(d, older_than_seconds, t) ==
    {r \in DOMAIN d.id_raw_id_preprocessed :
        /\ ~d.id_raw_id_preprocessed[r].cache
        /\ SummaryRow(d, r).status = COMPLETED
        /\ d.id_raw_id_preprocessed[r].last_accessed < t - older_than_seconds}

UnboundSummaries(d) ==
    {s \in DOMAIN d.summary :
        \A r \in DOMAIN d.id_raw_id_preprocessed :
            d.id_raw_id_preprocessed[r].id_preprocessed # s}

cleanup_cache(d, older_than_seconds, t) ==
    LET d1 == [d EXCEPT !.id_raw_id_preprocessed =
                  Restrict(@, (DOMAIN @) \ ExpiredIds(d, older_than_seconds, t))]
        deleted == UnboundSummaries(d1)
        summaries_id == {d1.summary[s].source_id : s \in deleted}
        d2 == DeleteSummaries(d1, deleted)
    IN  IF summaries_id = {} THEN d2
        ELSE IF Cardinality(summaries_id) = 1
        THEN DeleteSources(d2, summaries_id)
        ELSE d

(***************************************************************************)
(* ConsumerLoop (dispatcher/kafka/kafka_consumer.py).                      *)
(***************************************************************************)

\* _update_warnings(old_warnings, new_warnings).  Both are optional dicts.
\* old_warnings.copy() raises AttributeError when old_warnings is None and
\* new_warnings is not empty.
MergeWarnings(old, new) ==
    [k \in (DOMAIN old) \cup (DOMAIN new) |->
        IF k \in DOMAIN old /\ k \in DOMAIN new THEN old[k] \o new[k]
        ELSE IF k \in DOMAIN old THEN old[k]
        ELSE new[k]]

update_warnings(old_warnings, new_warnings) ==
    IF new_warnings = Nothing \/ new_warnings = Some(EmptyDict)
    THEN [raised |-> FALSE, warnings |-> old_warnings]
    ELSE IF old_warnings = Nothing
    THEN [raised |-> TRUE, warnings |-> Nothing]
    ELSE [raised |-> FALSE,
          warnings |-> Some(MergeWarnings(old_warnings[1], new_warnings[1]))]

\* The message produced to the text-encoding topic: it is keyed by the key
\* of the consumed message.
EncodingMsg(msg) ==
    [topic |-> TEXT_ENCODING,
     key |-> msg.key,
     text_preprocessed |-> msg.text_preprocessed,
     model |-> msg.model,
     params |-> msg.params]

\* Body of the loop for a message whose summary_status is PREPROCESSING.
ProcessPreprocessing(d, msg, t) ==
    LET id_preprocessed ==
            get_unique_key(msg.text_preprocessed, msg.model, msg.params)
        g1 == get_summary(d, id_preprocessed, t)
        d2 == IF msg.key # id_preprocessed
              THEN update_preprocessed_id(g1.db, msg.key, id_preprocessed, t)
              ELSE g1.db
        g2 == get_summary(g1.db, msg.key, t)
        d3 == update_source(g2.db, g2.source, msg.text_preprocessed,
                            msg.key, id_preprocessed, t)
    IN  IF g1.found /\ g1.status = COMPLETED
        THEN [db |-> increment_summary_count(d2, msg.key).db,
              sent |-> <<>>, raised |-> FALSE, branch |-> "exists"]
        ELSE IF ~g2.found
        THEN \* get_summary(msg.key())[0] is None: AttributeError
             [db |-> g2.db, sent |-> <<>>, raised |-> TRUE,
              branch |-> "forward"]
        ELSE [db |-> increment_summary_count(d3, msg.key).db,
              sent |-> <<EncodingMsg(msg)>>, raised |-> FALSE,
              branch |-> "forward"]

\* Body of the loop for a message with any other summary_status.
UpdateColumns(msg, warnings, t) ==
    IF msg.summary_status = COMPLETED
    THEN [c \in {"status", "warnings", "ended_at", "summary", "params"} |->
            CASE c = "status" -> msg.summary_status
              [] c = "warnings" -> warnings
              [] c = "ended_at" -> t
              [] c = "summary" -> msg.output
              [] c = "params" -> msg.params]
    ELSE [c \in {"status", "warnings"} |->
            IF c = "status" THEN msg.summary_status ELSE warnings]

ProcessStatus(d, msg, t) ==
    LET g == get_summary(d, msg.key, t)
        w == update_warnings(g.warnings,
                             IF msg.warnings = Nothing
                             THEN Some(EmptyDict) ELSE msg.warnings)
        u == update_summary(g.db, msg.key,
                            UpdateColumns(msg, w.warnings, t), t)
    IN  IF w.raised
        THEN [db |-> g.db, sent |-> <<>>, raised |-> TRUE, branch |-> "status"]
        ELSE \* summary, _ = None raises TypeError
             [db |-> u.db, sent |-> <<>>, raised |-> ~u.found,
              branch |-> "status"]

ProcessMessage(d, msg, t) ==
    IF msg.summary_status = PREPROCESSING
    THEN ProcessPreprocessing(d, msg, t)
    ELSE ProcessStatus(d, msg, t)

\* The head of an iteration of the loop: the periodic sweep is due.
CleanupDue(t, previous) == t - previous > CACHE_CLEANUP_INTERVAL_SECONDS

(***************************************************************************)
(* Inputs.  A request is a source text and a params dict; its raw id is    *)
(* get_unique_key(source, model, params).  The preprocessor turns the      *)
(* source into Preprocess(source) and publishes it under the raw id.       *)
(***************************************************************************)
\* Three client requests, as the request loader hands them over: the first
\* one named an unsupported model, which the loader replaced by the default
\* model and reported in its warnings.
UNSUPPORTED_MODEL == [k \in {"model"} |-> <<"unsupported model">>]

Requests ==
    {[source |-> "a", params |-> <<>>, warnings |-> Some(UNSUPPORTED_MODEL)],
     [source |-> "ab", params |-> <<>>, warnings |-> Nothing],
     [source |-> "ab", params |-> << <<"top_k", "1">> >>,
      warnings |-> Nothing]}

\* The text preprocessor (external): a normalisation, idempotent.
Preprocess(text) == "a"

RawId(q) == get_unique_key(q.source, T5_LARGE, q.params)

PreprocessedId(q) == get_unique_key(Preprocess(q.source), T5_LARGE, q.params)

Ids == {RawId(q) : q \in Requests} \cup {PreprocessedId(q) : q \in Requests}

\* The warnings a stage may attach to its message.
StageWarnings ==
    {Nothing, Some([k \in {"top_k"} |-> <<"must be an int">>])}

\* The params the summarizer sends back once validated.
ValidatedParams(q) == q.params \o << <<"num_beams", "4">> >>

OutputOf(q) == "summary of " \o Preprocess(q.source)

\* The Summary object the REST layer builds for a new request.
NewSummary(q, t) ==
    [id_ |-> RawId(q), source |-> q.source, output |-> None,
     model |-> T5_LARGE, params |-> q.params, status |-> PREPROCESSING,
     started_at |-> t, ended_at |-> NoTime, language |-> ENGLISH]

\* The messages of the dispatcher topic for request q.
PreprocessingMsg(q) ==
    [key |-> RawId(q), summary_status |-> PREPROCESSING,
     text_preprocessed |-> Preprocess(q.source), model |-> T5_LARGE,
     params |-> q.params, output |-> None, warnings |-> Nothing]

StatusMsg(q, status, warnings) ==
    [key |-> RawId(q), summary_status |-> status,
     text_preprocessed |-> None, model |-> None,
     params |-> IF status = COMPLETED THEN ValidatedParams(q) ELSE <<>>,
     output |-> IF status = COMPLETED THEN OutputOf(q) ELSE None,
     warnings |-> warnings]

StageStatuses == {SUMMARIZING, COMPLETED}

(***************************************************************************)
(* State.                                                                  *)
(***************************************************************************)
VARIABLES
    db,                      \* the three tables
    now,                     \* the clock
    previous_cache_cleanup,  \* ConsumerLoop.run local
    loop,                    \* "running", or "raised" once run() has raised
    last,                    \* the last operation and what it did
    calls,                   \* DAO calls the REST layer may still make
    events,                  \* messages the loop may still consume
    requested,               \* per binding: was cache = TRUE ever asked
                             \* for under this id (insert_summary with
                             \* cache = TRUE, update_cache_true)
    topics,                  \* the messages in each Kafka topic
    workers,                 \* where the stage workers are in their loops
    thread                   \* the ConsumerLoop thread: its stop event and
                             \* its Kafka consumer

vars ==
    <<db, now, previous_cache_cleanup, loop, last, calls, events, requested,
      topics, workers, thread>>

\* A topic holds, per message key, the messages in the order they were
\* produced: Kafka keeps the order of the messages of one key, and messages
\* of different keys may be consumed in any order.
EmptyTopic == [k \in Ids |-> <<>>]

EmptyTopics ==
    [text_encoding |-> EmptyTopic, text_summarization |-> EmptyTopic,
     text_postprocessing |-> EmptyTopic, dispatcher |-> EmptyTopic]

Produce(topic, msg) == [topic EXCEPT ![msg.key] = Append(@, msg)]

Consume(topic, k) == [topic EXCEPT ![k] = Tail(@)]

\* published: the requests whose preprocessed text has been published;
\* encoder, summarizer: <<>> when the worker polls, else the message it is
\* handling (and, for the summarizer, the statement it is at).
\* dispatcher: <<>> when the loop is between two messages, else the
\* PREPROCESSING message it is handling and what its first get_summary
\* returned.
IdleWorkers ==
    [published |-> {}, encoder |-> <<>>, summarizer |-> <<>>,
     dispatcher |-> <<>>]

\* The thread of the loop when run() starts: stop() has not been called,
\* the consumer is subscribed.
IdleThread == [stop_event |-> FALSE, consumer |-> "subscribed"]

\* A variant of run() that closes the consumer after its loop and not in a
\* finally clause: an exception leaves the consumer as it is.
Finally_unclosed(th, exits) == th

\* The finally clause of run(): the consumer is closed when run() exits.
Finally(th, exits) ==
    IF exits THEN [th EXCEPT !.consumer = "closed"] ELSE th

\* The requested flags of the bindings that d holds; FALSE for a binding the
\* store created itself.
Carry(req, d) ==
    [r \in DOMAIN d.id_raw_id_preprocessed |-> r \in DOMAIN req /\ req[r]]

\* last.op names the operation, last.id the key of the consumed message,
\* last.warnings its warnings, last.sent the messages the loop produced.
NoOp == [op |-> "init", id |-> None, warnings |-> Nothing, branch |-> None,
         raised |-> FALSE, sent |-> <<>>]

Init ==
    /\ db = EmptyDB
    /\ now = 0
    /\ previous_cache_cleanup = 0
    /\ loop = "running"
    /\ last = NoOp
    /\ calls = MaxCalls
    /\ events = MaxEvents
    /\ requested = Carry(<<>>, EmptyDB)
    /\ topics = EmptyTopics
    /\ workers = IdleWorkers
    /\ thread = IdleThread

(***************************************************************************)
(* DAO calls made by the REST layer.                                       *)
(***************************************************************************)
RestCall(op, id) ==
    /\ calls > 0
    /\ calls' = calls - 1
    /\ last' = [NoOp EXCEPT !.op = op, !.id = id]
    /\ UNCHANGED <<now, previous_cache_cleanup, loop, events, topics, workers,
                   thread>>

InsertSummary(q, cache) ==
    /\ db' = insert_summary(db, NewSummary(q, now), cache, q.warnings, now)
    /\ requested' =
           [r \in DOMAIN db'.id_raw_id_preprocessed |->
               IF r = RawId(q) /\ r \notin DOMAIN db.id_raw_id_preprocessed
               THEN cache ELSE requested[r]]
    /\ RestCall("insert_summary", None)

GetSummary(id) ==
    /\ db' = get_summary(db, id, now).db
    /\ requested' = Carry(requested, db')
    /\ RestCall("get_summary", None)

UpdateCacheTrue(id) ==
    /\ db' = update_cache_true(db, id, now)
    /\ requested' =
           [r \in DOMAIN db'.id_raw_id_preprocessed |->
               r = id \/ requested[r]]
    /\ RestCall("update_cache_true", id)

DeleteIfNotCache(id) ==
    /\ db' = delete_if_not_cache(db, id)
    /\ requested' = Carry(requested, db')
    /\ RestCall("delete_if_not_cache", id)

(***************************************************************************)
(* ConsumerLoop.run.  At the head of an iteration the loop runs the sweep  *)
(* when it is due (CleanupCache), then it polls; Iteration(msg) is the     *)
(* rest of an iteration that polled msg, so it waits for the sweep that is *)
(* due.  The sweep is a transaction of its own: calls of the REST layer    *)
(* may come between it and the handling of the message.                    *)
(***************************************************************************)
CleanupCache ==
    /\ loop = "running"
    /\ CleanupDue(now, previous_cache_cleanup)
    /\ db' = cleanup_cache(db, OLDER_THAN_SECONDS, now)
    /\ requested' = Carry(requested, db')
    /\ previous_cache_cleanup' = now
    /\ last' = [NoOp EXCEPT !.op = "cleanup_cache"]
    /\ UNCHANGED <<now, loop, calls, events, topics, workers, thread>>

Iteration(msg) ==
    LET r == ProcessMessage(db, msg, now)
    IN  /\ loop = "running"
        /\ ~CleanupDue(now, previous_cache_cleanup)
        /\ events > 0
        /\ events' = events - 1
        /\ db' = r.db
        /\ requested' = Carry(requested, r.db)
        /\ loop' = IF r.raised THEN "raised" ELSE "running"
        /\ last' = [op |-> msg.summary_status, id |-> msg.key,
                    warnings |-> msg.warnings, branch |-> r.branch,
                    raised |-> r.raised, sent |-> r.sent]
        /\ thread' = Finally(thread, r.raised)
        /\ UNCHANGED <<now, previous_cache_cleanup, calls>>

\* The loop polls a message of request q; the topics are left aside.
ConsumePreprocessing(q) ==
    /\ Iteration(PreprocessingMsg(q))
    /\ UNCHANGED <<topics, workers>>

ConsumeStatus(q, status, warnings) ==
    /\ Iteration(StatusMsg(q, status, warnings))
    /\ UNCHANGED <<topics, workers>>

Tick ==
    /\ now < MaxTicks * TickSeconds
    /\ now' = now + TickSeconds
    /\ last' = [NoOp EXCEPT !.op = "tick"]
    /\ UNCHANGED <<db, previous_cache_cleanup, loop, calls, events, requested,
                   topics, workers, thread>>

Next ==
    \/ \E q \in Requests, cache \in BOOLEAN : InsertSummary(q, cache)
    \/ \E id \in Ids : GetSummary(id)
    \/ \E id \in Ids : UpdateCacheTrue(id)
    \/ \E id \in Ids : DeleteIfNotCache(id)
    \/ \E q \in Requests : ConsumePreprocessing(q)
    \/ \E q \in Requests, st \in StageStatuses, w \in StageWarnings :
          ConsumeStatus(q, st, w)
    \/ CleanupCache
    \/ Tick

Spec == Init /\ [][Next]_vars

(***************************************************************************)
(* The request flow alone: requests are stored and the loop consumes       *)
(* their messages; no fetch, no opt-out, no clock.  It affords one more    *)
(* message than Spec.                                                      *)
(***************************************************************************)
InitFlow ==
    /\ db = EmptyDB
    /\ now = 0
    /\ previous_cache_cleanup = 0
    /\ loop = "running"
    /\ last = NoOp
    /\ calls = MaxCalls
    /\ events = MaxFlowEvents
    /\ requested = Carry(<<>>, EmptyDB)
    /\ topics = EmptyTopics
    /\ workers = IdleWorkers
    /\ thread = IdleThread

NextFlow ==
    \/ \E q \in Requests, cache \in BOOLEAN : InsertSummary(q, cache)
    \/ \E q \in Requests : ConsumePreprocessing(q)
    \/ \E q \in Requests, st \in StageStatuses, w \in StageWarnings :
          ConsumeStatus(q, st, w)

SpecFlow == InitFlow /\ [][NextFlow]_vars

(***************************************************************************)
(* The pipeline: requests are stored, the text preprocessor publishes      *)
(* their preprocessed text, and the Dispatcher loop, the encoder, the      *)
(* summarizer and the postprocessor each consume their topic and produce   *)
(* to the next one.  Every _produce_message call of a worker is a step.    *)
(***************************************************************************)
\* A status update as the encoder and the summarizer dump it
\* (DispatcherProducedMsgSchema): the status and, optionally, the warnings.
WorkerStatusMsg(key, status, warnings) ==
    [key |-> key, summary_status |-> status, text_preprocessed |-> None,
     model |-> None, params |-> <<>>, output |-> None, warnings |-> warnings]

\* The message of the postprocessor: the status, the output and the params.
CompletedMsg(key, output, params) ==
    [key |-> key, summary_status |-> COMPLETED, text_preprocessed |-> None,
     model |-> None, params |-> params, output |-> output,
     warnings |-> Nothing]

Encode(text) == "enc(" \o text \o ")"

Summarize(text_encodings) == "sum(" \o text_encodings \o ")"

Postprocess(summary) == "post(" \o summary \o ")"

\* validate_params for params whose values are valid, as the params of
\* Requests are: the params completed with the defaults, and no warnings.
validate_params(params) ==
    [params |-> params \o << <<"num_beams", "4">> >>, warnings |-> EmptyDict]

WorkerStep(op) ==
    /\ last' = [NoOp EXCEPT !.op = op]
    /\ UNCHANGED <<db, now, previous_cache_cleanup, loop, calls, events,
                   requested, thread>>

\* The text preprocessor publishes the preprocessed text of a stored
\* request, keyed by the id of the request.
PublishPreprocessing(q) ==
    /\ RawId(q) \in DOMAIN db.id_raw_id_preprocessed
    /\ RawId(q) \notin workers.published
    /\ topics' = [topics EXCEPT
                     !.dispatcher = Produce(@, PreprocessingMsg(q))]
    /\ workers' = [workers EXCEPT !.published = @ \cup {RawId(q)}]
    /\ WorkerStep("preprocessor")

\* ConsumerLoop.run polls the dispatcher topic.
DispatcherPoll(k) ==
    /\ topics.dispatcher[k] # <<>>
    /\ Iteration(topics.dispatcher[k][1])
    /\ topics' = [topics EXCEPT
                     !.dispatcher = Consume(@, k),
                     !.text_encoding =
                         IF last'.sent = <<>> THEN @
                         ELSE Produce(@, last'.sent[1])]
    /\ UNCHANGED workers

\* A variant of the encoder that produces the message for the summarizer
\* when it consumes, before its status update.
EncoderPoll_next_stage_first(k) ==
    /\ workers.encoder = <<>>
    /\ topics.text_encoding[k] # <<>>
    /\ topics' = [topics EXCEPT
                     !.text_encoding = Consume(@, k),
                     !.text_summarization =
                         Produce(@, [key |-> k,
                                     text_encodings |->
                                         Encode(topics.text_encoding[k][1]
                                                    .text_preprocessed),
                                     params |->
                                         topics.text_encoding[k][1].params])]
    /\ workers' = [workers EXCEPT !.encoder = <<topics.text_encoding[k][1]>>]
    /\ WorkerStep("encoder")

\* TextEncoderService.run
EncoderPoll(k) ==
    /\ workers.encoder = <<>>
    /\ topics.text_encoding[k] # <<>>
    /\ topics' = [topics EXCEPT
                     !.text_encoding = Consume(@, k),
                     !.dispatcher =
                         Produce(@, WorkerStatusMsg(k, ENCODING, Nothing))]
    /\ workers' = [workers EXCEPT !.encoder = <<topics.text_encoding[k][1]>>]
    /\ WorkerStep("encoder")

EncoderProduce ==
    /\ workers.encoder # <<>>
    /\ topics' = [topics EXCEPT !.text_summarization =
                     Produce(@, [key |-> workers.encoder[1].key,
                                 text_encodings |->
                                     Encode(workers.encoder[1].text_preprocessed),
                                 params |-> workers.encoder[1].params])]
    /\ workers' = [workers EXCEPT !.encoder = <<>>]
    /\ WorkerStep("encoder")

\* TextSummarizerService.run
SummarizerPoll(k) ==
    /\ workers.summarizer = <<>>
    /\ topics.text_summarization[k] # <<>>
    /\ topics' = [topics EXCEPT
                     !.text_summarization = Consume(@, k),
                     !.dispatcher =
                         Produce(@, WorkerStatusMsg(k, SUMMARIZING, Nothing))]
    /\ workers' = [workers EXCEPT !.summarizer =
                      <<[msg |-> topics.text_summarization[k][1],
                         at |-> "summarize"]>>]
    /\ WorkerStep("summarizer")

SummarizerProduce ==
    /\ workers.summarizer # <<>>
    /\ workers.summarizer[1].at = "summarize"
    /\ topics' = [topics EXCEPT !.text_postprocessing =
                     Produce(@, [key |-> workers.summarizer[1].msg.key,
                                 summary |-> Summarize(
                                     workers.summarizer[1].msg.text_encodings),
                                 params |-> validate_params(
                                     workers.summarizer[1].msg.params).params])]
    /\ workers' = [workers EXCEPT !.summarizer[1].at = "warnings"]
    /\ WorkerStep("summarizer")

SummarizerWarnings ==
    /\ workers.summarizer # <<>>
    /\ workers.summarizer[1].at = "warnings"
    /\ topics' = [topics EXCEPT !.dispatcher =
                     Produce(@, WorkerStatusMsg(
                                    workers.summarizer[1].msg.key, SUMMARIZING,
                                    Some(validate_params(
                                        workers.summarizer[1].msg.params)
                                             .warnings)))]
    /\ workers' = [workers EXCEPT !.summarizer = <<>>]
    /\ WorkerStep("summarizer")

\* TextPostprocessorService.run
PostprocessorPoll(k) ==
    /\ topics.text_postprocessing[k] # <<>>
    /\ topics' = [topics EXCEPT
                     !.text_postprocessing = Consume(@, k),
                     !.dispatcher =
                         Produce(@, CompletedMsg(
                                        k,
                                        Postprocess(
                                            topics.text_postprocessing[k][1]
                                                .summary),
                                        topics.text_postprocessing[k][1]
                                            .params))]
    /\ UNCHANGED workers
    /\ WorkerStep("postprocessor")

InitPipeline ==
    /\ db = EmptyDB
    /\ now = 0
    /\ previous_cache_cleanup = 0
    /\ loop = "running"
    /\ last = NoOp
    /\ calls = MaxPosts
    /\ events = MaxPosts * MessagesPerRequest
    /\ requested = Carry(<<>>, EmptyDB)
    /\ topics = EmptyTopics
    /\ workers = IdleWorkers
    /\ thread = IdleThread

NextPipeline ==
    \/ \E q \in Requests, cache \in BOOLEAN : InsertSummary(q, cache)
    \/ \E q \in Requests : PublishPreprocessing(q)
    \/ \E k \in Ids : DispatcherPoll(k)
    \/ \E k \in Ids : EncoderPoll(k)
    \/ EncoderProduce
    \/ \E k \in Ids : SummarizerPoll(k)
    \/ SummarizerProduce
    \/ SummarizerWarnings
    \/ \E k \in Ids : PostprocessorPoll(k)

SpecPipeline == InitPipeline /\ [][NextPipeline]_vars

(***************************************************************************)
(* Properties.                                                             *)
(***************************************************************************)
Bindings(d) == DOMAIN d.id_raw_id_preprocessed

Binding(d, r) == d.id_raw_id_preprocessed[r]

\* C1: a binding that is stored with cache = TRUE and is still stored after
\* a step has cache = TRUE after it, whatever DAO method or loop iteration
\* the step is: the flag of a binding never goes from TRUE back to FALSE.
C1_CacheNeverCleared ==
    [][\A r \in Bindings(db) :
          (r \in Bindings(db') /\ Binding(db, r).cache)
              => Binding(db', r).cache]_vars

\* update_preprocessed_id has just bound a requester with cache = FALSE to
\* an artifact whose self-binding has cache = TRUE.
C1_Witness ==
    /\ last.op = PREPROCESSING
    /\ last.branch = "exists"
    /\ last.id \in Bindings(db)
    /\ ~Binding(db, last.id).cache
    /\ Binding(db, last.id).id_preprocessed # last.id
    /\ Binding(db, last.id).id_preprocessed \in Bindings(db)
    /\ Binding(db, Binding(db, last.id).id_preprocessed).cache

\* The steps that run delete_if_not_cache, cleanup_cache or
\* update_preprocessed_id: the opt-out call, the sweep, and the handling of
\* a PREPROCESSING message.
DeletingOps == {"delete_if_not_cache", "cleanup_cache", PREPROCESSING}

\* The bindings stored with cache = TRUE.
CachedBindings(d) == {r \in Bindings(d) : Binding(d, r).cache}

\* C2: no step that runs delete_if_not_cache, cleanup_cache or
\* update_preprocessed_id deletes a binding whose cache flag is TRUE, nor
\* the summary row and source row such a binding resolves to, also when
\* several summary rows share one source row.
C2_CachedNeverDeleted ==
    [][last'.op \in DeletingOps =>
          \A r \in CachedBindings(db) :
              r \in Bindings(db') /\ SummaryFound(db', r)]_vars

\* The summary row stored under X is completed and has its self-binding.
CompletedUnder(d, X) ==
    /\ X \in Bindings(d)
    /\ Binding(d, X).id_preprocessed = X
    /\ X \in DOMAIN d.summary
    /\ d.summary[X].status = COMPLETED

\* C3: when the loop handles a PREPROCESSING message with key R whose
\* preprocessed text, model and params hash to X # R, R has a binding, and
\* a completed summary is stored under X with its self-binding, then after
\* the iteration R's binding targets X, nothing was produced to the
\* text-encoding topic, and the request_count of X is one higher.
C3_ShortCircuit ==
    [][\A q \in Requests :
          (/\ last'.op = PREPROCESSING
           /\ last'.id = RawId(q)
           /\ RawId(q) # PreprocessedId(q)
           /\ RawId(q) \in Bindings(db)
           /\ CompletedUnder(db, PreprocessedId(q)))
          => /\ RawId(q) \in Bindings(db')
             /\ Binding(db', RawId(q)).id_preprocessed = PreprocessedId(q)
             /\ last'.sent = <<>>
             /\ PreprocessedId(q) \in DOMAIN db'.summary
             /\ db'.summary[PreprocessedId(q)].request_count =
                    db.summary[PreprocessedId(q)].request_count + 1]_vars

\* The columns of the summary row that key's binding resolves to, which a
\* COMPLETED message writes.
CompletedColumns(d, key) ==
    [status |-> SummaryRow(d, key).status,
     output |-> SummaryRow(d, key).summary,
     params |-> SummaryRow(d, key).params,
     warnings |-> SummaryRow(d, key).warnings]

UnreferencedSources(d) ==
    {s \in DOMAIN d.source :
        \A m \in DOMAIN d.summary : d.summary[m].source_id # s}

\* C6: right after cleanup_cache(OLDER_THAN_SECONDS) the store holds no
\* binding with cache = FALSE, a completed artifact and last_accessed older
\* than the threshold, no summary row that no binding targets, and no
\* source row that no summary row references.
C6_SweepLeavesNothingExpired ==
    last.op = "cleanup_cache" =>
        /\ ExpiredIds(db, OLDER_THAN_SECONDS, now) = {}
        /\ UnboundSummaries(db) = {}
        /\ UnreferencedSources(db) = {}

\* The binding of r is one the sweep at time t is to delete: cache = FALSE,
\* a completed artifact, last accessed before t - OLDER_THAN_SECONDS.
Sweepable(d, r, t) ==
    /\ ~Binding(d, r).cache
    /\ d.summary[Binding(d, r).id_preprocessed].status = COMPLETED
    /\ Binding(d, r).last_accessed < t - OLDER_THAN_SECONDS

\* C7: cleanup_cache deletes a binding only if it has cache = FALSE, its
\* artifact is completed and its last access is older than the threshold,
\* and it deletes a summary row only if every binding that targeted it was
\* such a binding: bindings of artifacts in flight, and artifacts that keep
\* a binding, are not removed.
C7_SweepDeletesOnlyExpired ==
    [][last'.op = "cleanup_cache" =>
          /\ \A r \in Bindings(db) \ Bindings(db') : Sweepable(db, r, now)
          /\ \A s \in (DOMAIN db.summary) \ (DOMAIN db'.summary) :
                \A r \in Bindings(db) :
                    Binding(db, r).id_preprocessed = s
                        => Sweepable(db, r, now)]_vars

\* The bindings other than r that target the summary row r's binding
\* targets.
OtherBindings(d, r) ==
    {o \in Bindings(d) \ {r} :
        Binding(d, o).id_preprocessed = Binding(d, r).id_preprocessed}

\* C8: delete_if_not_cache(r) on a binding with cache = FALSE deletes the
\* binding; the summary row it targeted is deleted when r was its only
\* binding, and otherwise exactly when every other binding that targets it
\* has cache = FALSE.  When r's binding has cache = TRUE or r has no
\* binding the tables do not change.
C8_DeleteIfNotCache ==
    [][last'.op = "delete_if_not_cache" =>
          IF last'.id \in Bindings(db) /\ ~Binding(db, last'.id).cache
          THEN /\ last'.id \notin Bindings(db')
               /\ (Binding(db, last'.id).id_preprocessed
                       \notin DOMAIN db'.summary)
                  <=> (\A o \in OtherBindings(db, last'.id) :
                           ~Binding(db, o).cache)
          ELSE db' = db]_vars

\* C10: when the loop handles a PREPROCESSING message with key R whose
\* preprocessed text, model and params hash to P # R, R's artifact is
\* stored under R and nothing is stored under P, then after the iteration
\* the summary row is stored under P with the status and started_at it
\* had (and its request_count, which the iteration then increments by
\* one), its source is the preprocessed text, R's binding targets P, and
\* P has a self-binding with R's cache flag.
C10_RenameToPreprocessedId ==
    [][\A q \in Requests :
          (/\ last'.op = PREPROCESSING
           /\ last'.id = RawId(q)
           /\ RawId(q) # PreprocessedId(q)
           /\ RawId(q) \in Bindings(db)
           /\ Binding(db, RawId(q)).id_preprocessed = RawId(q)
           /\ PreprocessedId(q) \notin DOMAIN db.summary
           /\ PreprocessedId(q) \notin Bindings(db))
          => /\ RawId(q) \notin DOMAIN db'.summary
             /\ PreprocessedId(q) \in DOMAIN db'.summary
             /\ db'.summary[PreprocessedId(q)].status =
                    db.summary[RawId(q)].status
             /\ db'.summary[PreprocessedId(q)].started_at =
                    db.summary[RawId(q)].started_at
             /\ db'.summary[PreprocessedId(q)].request_count =
                    db.summary[RawId(q)].request_count + 1
             /\ db'.source[db'.summary[PreprocessedId(q)].source_id].content
                    = Preprocess(q.source)
             /\ RawId(q) \in Bindings(db')
             /\ Binding(db', RawId(q)).id_preprocessed = PreprocessedId(q)
             /\ PreprocessedId(q) \in Bindings(db')
             /\ Binding(db', PreprocessedId(q)).id_preprocessed =
                    PreprocessedId(q)
             /\ Binding(db', PreprocessedId(q)).cache =
                    Binding(db, RawId(q)).cache]_vars

C5_CompletedIsFinal ==
    [][\A s \in (DOMAIN db.summary) \cap (DOMAIN db'.summary) :
          db.summary[s].status = COMPLETED
              => db'.summary[s].status = COMPLETED]_vars

\* The loop has just handled a message (a step of Iteration).
Handled == events' = events - 1

\* C11: when the loop handles a PREPROCESSING message that it does not
\* short-circuit, it produces exactly one message to the text-encoding
\* topic, carrying the preprocessed text, and that message is keyed by the
\* id of the preprocessed text, model and params.  Stated for the messages
\* whose key has a stored artifact (the loop does not raise).
C11_ForwardKeyedByCanonicalId ==
    [][(/\ Handled
        /\ last'.op = PREPROCESSING
        /\ last'.branch = "forward"
        /\ ~last'.raised)
          => /\ Len(last'.sent) = 1
             /\ last'.sent[1].topic = TEXT_ENCODING
             /\ last'.sent[1].key =
                    get_unique_key(last'.sent[1].text_preprocessed,
                                   last'.sent[1].model,
                                   last'.sent[1].params)]_vars

(***************************************************************************)
(* Requests whose PREPROCESSING messages the loop handles in the order it  *)
(* polls them: requests are stored, the text preprocessor publishes their  *)
(* preprocessed text, the loop polls the dispatcher topic.                 *)
(***************************************************************************)
NextRace ==
    \/ \E q \in Requests, cache \in BOOLEAN : InsertSummary(q, cache)
    \/ \E q \in Requests : PublishPreprocessing(q)
    \/ \E k \in Ids : DispatcherPoll(k)

SpecRace == Init /\ [][NextRace]_vars

\* The PREPROCESSING message of request q has been published and handled.
PreprocessingHandled(q) ==
    /\ RawId(q) \in workers.published
    /\ topics.dispatcher[RawId(q)] = <<>>

\* C12: when two stored requests with different raw keys have preprocessed
\* text with the same id P and the loop has handled the PREPROCESSING
\* messages of both, the loop has not raised and the bindings of both raw
\* keys target the artifact stored under P.
C12_BothBoundToOneArtifact ==
    \A q1 \in Requests, q2 \in Requests :
        (/\ RawId(q1) # RawId(q2)
         /\ PreprocessedId(q1) = PreprocessedId(q2)
         /\ PreprocessingHandled(q1)
         /\ PreprocessingHandled(q2))
            => /\ loop = "running"
               /\ PreprocessedId(q1) \in DOMAIN db.summary
               /\ \A q \in {q1, q2} :
                     /\ RawId(q) \in Bindings(db)
                     /\ Binding(db, RawId(q)).id_preprocessed =
                            PreprocessedId(q)

WarningKeys == {"model", "top_k"}

WarningLists == {<<"w1">>, <<"w2", "w3">>}

WarningDicts ==
    UNION {[K -> WarningLists] : K \in SUBSET WarningKeys}

OptionalWarnings == {Nothing} \cup {Some(w) : w \in WarningDicts}

InitWarnings ==
    /\ db = EmptyDB
    /\ now = 0
    /\ previous_cache_cleanup = 0
    /\ loop = "running"
    /\ \E old \in OptionalWarnings, new \in OptionalWarnings :
          last = [op |-> "arguments", old_warnings |-> old,
                  new_warnings |-> new]
    /\ calls = 0
    /\ events = 0
    /\ requested = Carry(<<>>, EmptyDB)
    /\ topics = EmptyTopics
    /\ workers = IdleWorkers
    /\ thread = IdleThread

UpdateWarnings ==
    /\ last.op = "arguments"
    /\ last' = [op |-> "_update_warnings",
                old_warnings |-> last.old_warnings,
                new_warnings |-> last.new_warnings,
                raised |-> update_warnings(last.old_warnings,
                                           last.new_warnings).raised,
                warnings |-> update_warnings(last.old_warnings,
                                             last.new_warnings).warnings]
    /\ UNCHANGED <<db, now, previous_cache_cleanup, loop, calls, events,
                   requested, topics, workers, thread>>

NextWarnings == UpdateWarnings

SpecWarnings == InitWarnings /\ [][NextWarnings]_vars

\* The dict an optional dict stands for: None counts as no warnings.
DictOf(w) == IF w = Nothing THEN EmptyDict ELSE w[1]

\* C14: for every pair of warnings maps, an absent (None) or empty old map
\* included, _update_warnings raises nothing; it returns old as it is when
\* new is None or empty, and otherwise the map that holds, per key, old[key]
\* followed by new[key], old[key] alone or new[key] alone.
C14_UpdateWarningsMerges ==
    last.op = "_update_warnings"
        => /\ ~last.raised
           /\ IF DictOf(last.new_warnings) = EmptyDict
              THEN last.warnings = last.old_warnings
              ELSE /\ last.warnings # Nothing
                   /\ DOMAIN last.warnings[1] =
                          (DOMAIN DictOf(last.old_warnings))
                              \cup (DOMAIN last.new_warnings[1])
                   /\ \A k \in DOMAIN last.warnings[1] :
                         last.warnings[1][k] =
                             (IF k \in DOMAIN DictOf(last.old_warnings)
                              THEN DictOf(last.old_warnings)[k] ELSE <<>>)
                             \o (IF k \in DOMAIN last.new_warnings[1]
                                 THEN last.new_warnings[1][k] ELSE <<>>)

(***************************************************************************)
(* The pipeline under fair scheduling: every service runs its loop for     *)
(* ever (while not stopped), so a step of a service that stays possible is *)
(* eventually taken.  For the Dispatcher loop the condition is written     *)
(* out: DispatcherReady is the guard of DispatcherPoll, and the loop       *)
(* either is not ready infinitely often or polls infinitely often.         *)
(***************************************************************************)
DispatcherReady ==
    /\ loop = "running"
    /\ ~CleanupDue(now, previous_cache_cleanup)
    /\ events > 0
    /\ \E k \in Ids : topics.dispatcher[k] # <<>>

DispatcherFair ==
    \/ []<>(~DispatcherReady)
    \/ []<><<\E k \in Ids : DispatcherPoll(k)>>_vars

PipelineFairness ==
    /\ WF_vars(\E q \in Requests : PublishPreprocessing(q))
    /\ DispatcherFair
    /\ WF_vars(\E k \in Ids : EncoderPoll(k))
    /\ WF_vars(EncoderProduce)
    /\ WF_vars(\E k \in Ids : SummarizerPoll(k))
    /\ WF_vars(SummarizerProduce)
    /\ WF_vars(SummarizerWarnings)
    /\ WF_vars(\E k \in Ids : PostprocessorPoll(k))

SpecPipelineFair == InitPipeline /\ [][NextPipeline]_vars /\ PipelineFairness

\* What a client polling GET with id reads as a finished summary.
CompletedFor(id) ==
    /\ SummaryFound(db, id)
    /\ SummaryRow(db, id).status = COMPLETED
    /\ SummaryRow(db, id).summary # None

\* C15: under fair scheduling of the services, the artifact bound to the id
\* of every stored request eventually has status completed with an output,
\* and keeps it from then on.
C15_EventuallyCompletedForGood ==
    <>[](\A q \in Requests :
            RawId(q) \in Bindings(db) => CompletedFor(RawId(q)))

\* C16: no message the loop handles and no outcome of a store call ends the
\* loop: run() raises for channel errors only, which are not part of these
\* behaviours, so the loop is running in every state.
C16_LoopSurvivesEvents == loop = "running"

(***************************************************************************)
(* Database errors.  A DAO method that runs one transaction and hits a     *)
(* database error (no connection, a failing statement) logs it and closes  *)
(* the connection without commit.  update_summary runs three transactions: *)
(* summary_exists, its own UPDATE, and get_summary; error_at names the     *)
(* transaction that hits the error (0: none).  It returns None (found =    *)
(* FALSE) whenever one of them fails.                                      *)
(***************************************************************************)
DbErrorAt == {1, 2, 3}

update_summary_db_error(d, id, cols, t, error_at) ==
    LET d1 == summary_exists(d, id, t).db
        target == d1.id_raw_id_preprocessed[id].id_preprocessed
        old == d1.summary[target]
        new == [c \in DOMAIN old |->
                   IF c \in DOMAIN cols THEN cols[c] ELSE old[c]]
        d2 == [d1 EXCEPT !.summary[target] = new]
    IN  IF error_at = 0 THEN update_summary(d, id, cols, t)
        ELSE IF error_at = 1 THEN [db |-> d, found |-> FALSE]
        ELSE IF ~summary_exists(d, id, t).exists
        THEN [db |-> d1, found |-> FALSE]
        ELSE IF error_at = 2 THEN [db |-> d1, found |-> FALSE]
        ELSE [db |-> d2, found |-> FALSE]

\* update_summary(id_, status = ...) hits a database error.
UpdateSummaryDbError(id, status, error_at) ==
    /\ db' = update_summary_db_error(db, id, [c \in {"status"} |-> status],
                                     now, error_at).db
    /\ requested' = Carry(requested, db')
    /\ calls > 0
    /\ calls' = calls - 1
    /\ last' = [op |-> "update_summary", id |-> id, error_at |-> error_at,
                returned |-> None]
    /\ UNCHANGED <<now, previous_cache_cleanup, loop, events, topics, workers,
                   thread>>

NextDbErrors ==
    \/ \E q \in Requests, cache \in BOOLEAN : InsertSummary(q, cache)
    \/ \E id \in Ids, st \in StageStatuses, e \in DbErrorAt :
          UpdateSummaryDbError(id, st, e)
    \/ Tick

SpecDbErrors == Init /\ [][NextDbErrors]_vars

\* C17: a DAO method that hits a database error returns None and commits
\* none of its row changes: the tables are what they were before the call.
C17_DbErrorCommitsNothing ==
    [][(last'.op = "update_summary" /\ calls' = calls - 1)
          => (last'.returned = None /\ db' = db)]_vars

(***************************************************************************)
(* A full producer queue.  ConsumerLoop._produce_message catches the       *)
(* BufferError of producer.produce, logs it and returns: nothing is sent   *)
(* and nothing is raised.                                                  *)
(***************************************************************************)
produce_message(sent, buffer_full) ==
    [sent |-> IF buffer_full THEN <<>> ELSE sent, raised |-> FALSE]

\* The loop handles the PREPROCESSING message of request q while the queue
\* of its producer is full.  buffer_full tells whether the loop came to
\* call _produce_message.
ConsumePreprocessingBufferFull(q) ==
    \E r \in {ProcessPreprocessing(db, PreprocessingMsg(q), now)} :
        /\ loop = "running"
        /\ ~CleanupDue(now, previous_cache_cleanup)
        /\ events > 0
        /\ events' = events - 1
        /\ db' = r.db
        /\ requested' = Carry(requested, r.db)
        /\ loop' = IF r.raised \/ produce_message(r.sent, TRUE).raised
                   THEN "raised" ELSE "running"
        /\ last' = [op |-> PREPROCESSING, id |-> RawId(q),
                    warnings |-> Nothing, branch |-> r.branch,
                    raised |-> r.raised
                                  \/ produce_message(r.sent, TRUE).raised,
                    sent |-> produce_message(r.sent, TRUE).sent,
                    buffer_full |-> r.sent # <<>>]
        /\ thread' = Finally(thread, r.raised
                                         \/ produce_message(r.sent, TRUE).raised)
        /\ UNCHANGED <<now, previous_cache_cleanup, calls, topics, workers>>

NextBufferFull ==
    \/ \E q \in Requests, cache \in BOOLEAN : InsertSummary(q, cache)
    \/ \E q \in Requests : ConsumePreprocessingBufferFull(q)

SpecBufferFull == Init /\ [][NextBufferFull]_vars

\* C18: when the queue of the producer is full while the loop forwards a
\* preprocessed text to the encoder, the handling of the message reports
\* the failure (the loop raises) instead of going on as if the message had
\* been sent.
C18_BufferFullIsReported ==
    [][(Handled /\ "buffer_full" \in DOMAIN last' /\ last'.buffer_full)
          => last'.raised]_vars


(***************************************************************************)
(* Stopping the loop.  run() is followed position by position: loop is     *)
(* "running" at the head of the while, "polling" from the sweep check to   *)
(* the end of the iteration, "stopped" once the while condition failed and *)
(* "raised" once an exception left run().  stop() may come at any moment.  *)
(***************************************************************************)
stopped(th) == th.stop_event

stop ==
    /\ ~stopped(thread)
    /\ thread' = [thread EXCEPT !.stop_event = TRUE]
    /\ UNCHANGED <<db, now, previous_cache_cleanup, loop, last, calls, events,
                   requested, topics, workers>>

\* The while condition, then the sweep when it is due.
RunHead ==
    /\ loop = "running"
    /\ IF stopped(thread)
       THEN /\ loop' = "stopped"
            /\ thread' = Finally(thread, TRUE)
            /\ UNCHANGED <<db, previous_cache_cleanup, requested>>
       ELSE /\ loop' = "polling"
            /\ thread' = Finally(thread, FALSE)
            /\ IF CleanupDue(now, previous_cache_cleanup)
               THEN /\ db' = cleanup_cache(db, OLDER_THAN_SECONDS, now)
                    /\ requested' = Carry(requested, db')
                    /\ previous_cache_cleanup' = now
               ELSE UNCHANGED <<db, previous_cache_cleanup, requested>>
    /\ UNCHANGED <<now, last, calls, events, topics, workers>>

\* poll returned None after its timeout: continue.
RunPollNone ==
    /\ loop = "polling"
    /\ loop' = "running"
    /\ UNCHANGED <<db, now, previous_cache_cleanup, last, calls, events,
                   requested, topics, workers, thread>>

\* poll returned msg: the rest of the iteration.  stopping tells whether
\* stop() had been called when the message was handled.
RunPoll(msg) ==
    \E r \in {ProcessMessage(db, msg, now)} :
        /\ loop = "polling"
        /\ events > 0
        /\ events' = events - 1
        /\ db' = r.db
        /\ requested' = Carry(requested, r.db)
        /\ loop' = IF r.raised THEN "raised" ELSE "running"
        /\ last' = [op |-> msg.summary_status, id |-> msg.key,
                    warnings |-> msg.warnings, branch |-> r.branch,
                    raised |-> r.raised, sent |-> r.sent,
                    stopping |-> stopped(thread)]
        /\ thread' = Finally(thread, r.raised)
        /\ UNCHANGED <<now, previous_cache_cleanup, calls, topics, workers>>

StopMessages ==
    {PreprocessingMsg(q) : q \in Requests}
        \cup {StatusMsg(q, COMPLETED, Nothing) : q \in Requests}

NextStop ==
    \/ \E q \in Requests, cache \in BOOLEAN : InsertSummary(q, cache)
    \/ stop
    \/ RunHead
    \/ RunPollNone
    \/ \E msg \in StopMessages : RunPoll(msg)
    \/ Tick

\* The thread of the loop keeps running, and poll returns after its timeout
\* at the latest.
SpecStop ==
    /\ Init
    /\ [][NextStop]_vars
    /\ WF_vars(RunHead)
    /\ WF_vars(RunPollNone)

Exited == loop \in {"raised", "stopped"}

\* C19: once stop() was called, the loop leaves at the head of its next
\* iteration without touching the store; a message polled before that is
\* handled to its end, as it would be without the stop; run() then exits,
\* and the consumer is closed exactly when run() has exited, by the while
\* condition or by an exception.
C19_StopExitsAndCloses ==
    /\ [](Exited <=> thread.consumer = "closed")
    /\ [][(stopped(thread) /\ loop = "running" /\ loop' # loop)
             => (loop' = "stopped" /\ db' = db)]_vars
    /\ [][(stopped(thread) /\ loop = "polling" /\ events' = events - 1)
             => \E msg \in StopMessages :
                    /\ last'.id = msg.key
                    /\ last'.op = msg.summary_status
                    /\ db' = ProcessMessage(db, msg, now).db]_vars
    /\ (stopped(thread) ~> Exited)

\* stop() came while a message was being handled: the message was forwarded
\* and stored, and then run() left and closed the consumer.
C19_Witness ==
    /\ loop = "stopped"
    /\ thread.consumer = "closed"
    /\ "stopping" \in DOMAIN last
    /\ last.stopping
    /\ last.op = PREPROCESSING
    /\ last.branch = "forward"
    /\ ~last.raised
    /\ last.id \in Bindings(db)


\* The step is a call insert_summary(NewSummary(q), cache).
InsertStep(q, cache) ==
    /\ last'.op = "insert_summary"
    /\ calls' = calls - 1
    /\ db' = insert_summary(db, NewSummary(q, now), cache, q.warnings, now)

\* C20: insert_summary for an id that already has a summary row leaves the
\* source, output, status and params of that row as they are, and after it
\* the id has a binding that carries the given cache flag, and the
\* request_count of the row is one more than before.
C20_ReinsertBindsAndCounts ==
    [][\A q \in Requests, cache \in BOOLEAN :
          (InsertStep(q, cache) /\ RawId(q) \in DOMAIN db.summary)
              => /\ RawId(q) \in DOMAIN db'.summary
                 /\ db'.summary[RawId(q)].source_id
                        = db.summary[RawId(q)].source_id
                 /\ db'.summary[RawId(q)].summary
                        = db.summary[RawId(q)].summary
                 /\ db'.summary[RawId(q)].status
                        = db.summary[RawId(q)].status
                 /\ db'.summary[RawId(q)].params
                        = db.summary[RawId(q)].params
                 /\ RawId(q) \in Bindings(db')
                 /\ Binding(db', RawId(q)).cache = cache
                 /\ db'.summary[RawId(q)].request_count
                        = db.summary[RawId(q)].request_count + 1]_vars


\* The step is a call get_summary(id) of the REST layer.
GetStep(id) ==
    /\ last'.op = "get_summary"
    /\ calls' = calls - 1
    /\ db' = get_summary(db, id, now).db

\* C21: get_summary(id) finds a summary exactly when id has a binding, and
\* then it is the summary the binding targets; the call leaves the summary
\* and source tables and every other binding as they are, keeps the target
\* and the cache flag of id's own binding, and changes nothing at all when
\* id has no binding.
C21_GetSummaryOnlyTouches ==
    [][\A id \in Ids :
          GetStep(id)
              => /\ get_summary(db, id, now).found <=> id \in Bindings(db)
                 /\ id \in Bindings(db)
                        => get_summary(db, id, now).summary_id
                               = Binding(db, id).id_preprocessed
                 /\ id \notin Bindings(db)
                        => /\ get_summary(db, id, now).summary_id = None
                           /\ db' = db
                 /\ db'.summary = db.summary
                 /\ db'.source = db.source
                 /\ Bindings(db') = Bindings(db)
                 /\ \A r \in Bindings(db) :
                        /\ r # id => Binding(db', r) = Binding(db, r)
                        /\ Binding(db', r).id_preprocessed
                               = Binding(db, r).id_preprocessed
                        /\ Binding(db', r).cache = Binding(db, r).cache]_vars

\* A request was stored, time passed, and the one call made since then was
\* a get_summary that set last_accessed of the request's binding.
C21_Witness ==
    /\ last.op = "get_summary"
    /\ calls = MaxCalls - 2
    /\ events = MaxEvents
    /\ now > 0
    /\ \E r \in Bindings(db) :
          /\ Binding(db, r).last_accessed = now
          /\ SummaryRow(db, r).started_at = 0


(***************************************************************************)
(* update_summary called with several sets of keyword arguments: the       *)
(* status alone, the output alone, and the columns of a completed summary. *)
(***************************************************************************)
ColumnUpdates(t) ==
    {[c \in {"status"} |-> SUMMARIZING],
     [c \in {"summary"} |-> "out"],
     [c \in {"status", "ended_at", "summary", "params"} |->
        CASE c = "status" -> COMPLETED
          [] c = "ended_at" -> t
          [] c = "summary" -> "out"
          [] c = "params" -> <<<<"top_k", "1">>>>]}

UpdateSummary(id, cols) ==
    /\ calls > 0
    /\ calls' = calls - 1
    /\ db' = update_summary(db, id, cols, now).db
    /\ requested' = Carry(requested, db')
    /\ last' = [op |-> "update_summary", id |-> id, cols |-> cols,
                returned |-> update_summary(db, id, cols, now).found]
    /\ UNCHANGED <<now, previous_cache_cleanup, loop, events, topics, workers,
                   thread>>

NextUpdate ==
    \/ \E q \in Requests, cache \in BOOLEAN : InsertSummary(q, cache)
    \/ \E q \in Requests : ConsumePreprocessing(q)
    \/ \E id \in Ids : \E cols \in ColumnUpdates(now) : UpdateSummary(id, cols)
    \/ Tick

SpecUpdate == Init /\ [][NextUpdate]_vars

\* C22: update_summary(id, cols) on a bound id returns the summary and sets,
\* on the summary row that id's binding targets, the columns of cols to the
\* values passed and leaves every other column of that row as it was; every
\* other summary row and the source table are unchanged; on an id without
\* binding it returns None and the summary table is unchanged.
C22_UpdateSummaryExactFields ==
    [][(last'.op = "update_summary" /\ calls' = calls - 1)
          => IF last'.id \in Bindings(db)
             THEN /\ last'.returned
                  /\ DOMAIN db'.summary = DOMAIN db.summary
                  /\ db'.source = db.source
                  /\ \A s \in DOMAIN db.summary :
                        IF s = Binding(db, last'.id).id_preprocessed
                        THEN \A c \in DOMAIN db.summary[s] :
                                db'.summary[s][c] =
                                    IF c \in DOMAIN last'.cols
                                    THEN last'.cols[c]
                                    ELSE db.summary[s][c]
                        ELSE db'.summary[s] = db.summary[s]
             ELSE /\ ~last'.returned
                  /\ db'.summary = db.summary
                  /\ db'.source = db.source]_vars

\* A status-only update was made through a binding that the loop had moved
\* to another summary id, while a second summary was stored.
C22_Witness ==
    /\ last.op = "update_summary"
    /\ last.returned
    /\ DOMAIN last.cols = {"status"}
    /\ Binding(db, last.id).id_preprocessed # last.id
    /\ SummaryRow(db, last.id).status = SUMMARIZING
    /\ Cardinality(DOMAIN db.summary) > 1


ParamNames == {"top_k", "num_beams"}

ParamReprs == {"1", "2"}

\* The dicts over ParamNames, one sequence per insertion order.
ParamDicts ==
    {<<>>}
        \cup {<< <<k, v>> >> : k \in ParamNames, v \in ParamReprs}
        \cup {d \in {<< <<k1, v1>>, <<k2, v2>> >> :
                         k1 \in ParamNames, k2 \in ParamNames,
                         v1 \in ParamReprs, v2 \in ParamReprs} :
                 d[1][1] # d[2][1]}

\* The mapping a dict is, whatever its insertion order: what == compares.
AsMapping(items) ==
    [k \in {items[i][1] : i \in DOMAIN items} |->
        items[CHOOSE i \in DOMAIN items : items[i][1] = k][2]]

TextCalls == [source : {"a", "ab"}, model : {T5_LARGE}, params : ParamDicts]

FileCalls ==
    {c \in [file : {"x", "y"}, start_page : {1, 11, 12, 112},
             end_page : {1, 11, 12, 112}] :
        c.start_page <= c.end_page}

\* str(n) of a non-negative int.
RECURSIVE IntStr(_)
IntStr(n) ==
    LET digits == <<"0", "1", "2", "3", "4", "5", "6", "7", "8", "9">>
    IN IF n < 10 THEN digits[n + 1]
       ELSE IntStr(n \div 10) \o digits[(n % 10) + 1]

\* str(file) of a bytes object.
BytesStr(file) == "b'" \o file \o "'"

\* get_unique_key(file, start_page, end_page) of the files dispatcher.
file_get_unique_key(file, start_page, end_page) ==
    Sha256(BytesStr(file) \o IntStr(start_page) \o IntStr(end_page))

InitKeys ==
    /\ db = EmptyDB
    /\ now = 0
    /\ previous_cache_cleanup = 0
    /\ loop = "running"
    /\ \/ \E c1 \in TextCalls, c2 \in TextCalls :
             last = [op |-> "text arguments", first |-> c1, second |-> c2]
       \/ \E c1 \in FileCalls, c2 \in FileCalls :
             last = [op |-> "file arguments", first |-> c1, second |-> c2]
    /\ calls = 0
    /\ events = 0
    /\ requested = Carry(<<>>, EmptyDB)
    /\ topics = EmptyTopics
    /\ workers = IdleWorkers
    /\ thread = IdleThread

GetUniqueKey ==
    /\ last.op = "text arguments"
    /\ last' = [op |-> "get_unique_key",
                first |-> last.first, second |-> last.second,
                first_key |-> get_unique_key(last.first.source,
                                             last.first.model,
                                             last.first.params),
                second_key |-> get_unique_key(last.second.source,
                                              last.second.model,
                                              last.second.params)]
    /\ UNCHANGED <<db, now, previous_cache_cleanup, loop, calls, events,
                   requested, topics, workers, thread>>

FileGetUniqueKey ==
    /\ last.op = "file arguments"
    /\ last' = [op |-> "file get_unique_key",
                first |-> last.first, second |-> last.second,
                first_key |-> file_get_unique_key(last.first.file,
                                                  last.first.start_page,
                                                  last.first.end_page),
                second_key |-> file_get_unique_key(last.second.file,
                                                   last.second.start_page,
                                                   last.second.end_page)]
    /\ UNCHANGED <<db, now, previous_cache_cleanup, loop, calls, events,
                   requested, topics, workers, thread>>

NextKeys == GetUniqueKey \/ FileGetUniqueKey

SpecKeys == InitKeys /\ [][NextKeys]_vars

\* C24: two calls of get_unique_key with equal sources, equal models and
\* params that are equal as mappings return the same key, whatever the
\* insertion orders of the two params dicts.
C24_KeyIgnoresInsertionOrder ==
    (/\ last.op = "get_unique_key"
     /\ last.first.source = last.second.source
     /\ last.first.model = last.second.model
     /\ AsMapping(last.first.params) = AsMapping(last.second.params))
        => last.first_key = last.second_key

\* C25: two calls with arguments that differ in some component return
\* different keys, for the (file, start_page, end_page) arguments of file
\* requests and for the (source, model, params) arguments of text requests.
C25_DifferentRequestsDifferentKeys ==
    /\ (last.op = "file get_unique_key" /\ last.first # last.second)
           => last.first_key # last.second_key
    /\ (/\ last.op = "get_unique_key"
        /\ \/ last.first.source # last.second.source
           \/ last.first.model # last.second.model
           \/ AsMapping(last.first.params) # AsMapping(last.second.params))
           => last.first_key # last.second_key


(***************************************************************************)
(* validate_params on its own, for params dicts with any keys and values.  *)
(* A value is a record of its Python type and a number: an int is itself,  *)
(* a float is given in hundredths (0.4 is FloatValue(40)), a bool is 0 or  *)
(* 1; a str and None carry 0.  A dict is a function from its keys.  The    *)
(* pipeline above uses validate_params, the case of valid params, with     *)
(* the defaults abbreviated to one.                                        *)
(***************************************************************************)
IntValue(n) == [type |-> "int", v |-> n]

FloatValue(hundredths) == [type |-> "float", v |-> hundredths]

BoolValue(b) == [type |-> "bool", v |-> IF b THEN 1 ELSE 0]

StrValue == [type |-> "str", v |-> 0]

NoneValue == [type |-> "NoneType", v |-> 0]

\* DefaultParam: the supported params and their default values.
DefaultParam ==
    [relative_max_length |-> FloatValue(40),
     relative_min_length |-> FloatValue(10),
     do_sample |-> BoolValue(TRUE),
     early_stopping |-> NoneValue,
     num_beams |-> IntValue(4),
     temperature |-> NoneValue,
     top_k |-> NoneValue,
     top_p |-> NoneValue,
     repetition_penalty |-> NoneValue,
     length_penalty |-> NoneValue,
     no_repeat_ngram_size |-> IntValue(4)]

PARAMS_VALIDATION_REQUISITES ==
    [relative_max_length |->
         [type_ |-> "float", lower_bound |-> 10, upper_bound |-> 100],
     relative_min_length |->
         [type_ |-> "float", lower_bound |-> 10, upper_bound |-> 100],
     do_sample |-> [type_ |-> "bool"],
     early_stopping |-> [type_ |-> "bool"],
     num_beams |-> [type_ |-> "int", lower_bound |-> 0],
     temperature |-> [type_ |-> "float"],
     top_k |-> [type_ |-> "int"],
     top_p |-> [type_ |-> "float"],
     repetition_penalty |-> [type_ |-> "float"],
     length_penalty |-> [type_ |-> "float"],
     no_repeat_ngram_size |-> [type_ |-> "int", lower_bound |-> 0]]

\* A variant of _validate_bounds that checks no bound.
validate_bounds_unchecked(value, reqs) == TRUE

\* _validate_bounds: both bounds are inclusive, a missing bound is not
\* checked.
validate_bounds(value, reqs) ==
    /\ "lower_bound" \in DOMAIN reqs => reqs.lower_bound <= value.v
    /\ "upper_bound" \in DOMAIN reqs => reqs.upper_bound >= value.v

\* A variant of _validate_value that tests with isinstance: a bool is an
\* instance of int.
validate_value_isinstance(value, reqs) ==
    LET warning_messages ==
            IF reqs.type_ = "int"
            THEN IF value.type \notin {"int", "bool"} THEN <<"INT">>
                 ELSE IF ~validate_bounds(value, reqs)
                 THEN <<"LOWER_BOUNDED">> ELSE <<>>
            ELSE IF reqs.type_ = "float"
            THEN IF value.type # "float" THEN <<"FLOAT">>
                 ELSE IF ~validate_bounds(value, reqs)
                 THEN <<"BOUNDED">> ELSE <<>>
            ELSE IF reqs.type_ = "bool" /\ value.type # "bool"
            THEN <<"BOOL">> ELSE <<>>
    IN  [is_valid |-> Len(warning_messages) = 0,
         warnings |-> warning_messages]

\* _validate_value: type(value) must be exactly type_; the warnings are the
\* names of the WarningMessage members.
validate_value(value, reqs) ==
    LET warning_messages ==
            IF reqs.type_ = "int"
            THEN IF value.type # "int" THEN <<"INT">>
                 ELSE IF ~validate_bounds(value, reqs)
                 THEN <<"LOWER_BOUNDED">> ELSE <<>>
            ELSE IF reqs.type_ = "float"
            THEN IF value.type # "float" THEN <<"FLOAT">>
                 ELSE IF ~validate_bounds(value, reqs)
                 THEN <<"BOUNDED">> ELSE <<>>
            ELSE IF reqs.type_ = "bool" /\ value.type # "bool"
            THEN <<"BOOL">> ELSE <<>>
    IN  [is_valid |-> Len(warning_messages) = 0,
         warnings |-> warning_messages]

\* d with the key k set to the value x, as d[k] = x does.
SetItem(d, k, x) ==
    [j \in (DOMAIN d) \cup {k} |-> IF j = k THEN x ELSE d[j]]

\* d[k] = x unless d has the key k already.
SetDefault(d, k, x) == IF k \in DOMAIN d THEN d ELSE SetItem(d, k, x)

\* The keys the loop over params puts into invalid_params, when unsupported
\* keys are let through.
Rejected_supported(params) ==
    {key \in DOMAIN params :
        /\ key \in DOMAIN DefaultParam
        /\ ~validate_value(params[key],
                           PARAMS_VALIDATION_REQUISITES[key]).is_valid}

\* The keys the loop over params puts into invalid_params: the unsupported
\* ones and the ones whose value is not valid.
Rejected(params) ==
    {key \in DOMAIN params :
        \/ key \notin DOMAIN DefaultParam
        \/ ~validate_value(params[key],
                           PARAMS_VALIDATION_REQUISITES[key]).is_valid}

\* The first check with > in the place of >=.
BothConflict_strict(p) ==
    /\ "relative_min_length" \in DOMAIN p
    /\ "relative_max_length" \in DOMAIN p
    /\ p["relative_min_length"].v > p["relative_max_length"].v

\* The three checks of min against max, in the order of the if / elif.
BothConflict(p) ==
    /\ "relative_min_length" \in DOMAIN p
    /\ "relative_max_length" \in DOMAIN p
    /\ p["relative_min_length"].v >= p["relative_max_length"].v

\* The second check left out.
OnlyMinConflict_unchecked(p) == FALSE

OnlyMinConflict(p) ==
    /\ ~BothConflict(p)
    /\ "relative_min_length" \in DOMAIN p
    /\ "relative_max_length" \notin DOMAIN p
    /\ p["relative_min_length"].v >= DefaultParam["relative_max_length"].v

\* The third check left out.
OnlyMaxConflict_unchecked(p) == FALSE

OnlyMaxConflict(p) ==
    /\ ~BothConflict(p)
    /\ ~OnlyMinConflict(p)
    /\ "relative_min_length" \notin DOMAIN p
    /\ "relative_max_length" \in DOMAIN p
    /\ p["relative_max_length"].v <= DefaultParam["relative_min_length"].v

\* validate_params(params) for any params dict: the params, the invalid
\* params and the warning messages it returns.
validate_params_of(params) ==
    LET supported_params == DOMAIN DefaultParam
        min_ == "relative_min_length"
        max_ == "relative_max_length"
        invalid1 == [key \in Rejected(params) |-> params[key]]
        warnings1 ==
            [key \in Rejected(params) |->
                IF key \notin supported_params THEN <<"UNSUPPORTED">>
                ELSE validate_value(params[key],
                                    PARAMS_VALIDATION_REQUISITES[key]).warnings]
        \* an invalid min or max is first replaced by its default
        params1 ==
            [key \in DOMAIN params |->
                IF key \in {min_, max_} /\ key \in DOMAIN invalid1
                THEN DefaultParam[key] ELSE params[key]]
        invalid2 ==
            IF BothConflict(params1)
            THEN SetItem(SetItem(invalid1, min_, params1[min_]),
                         max_, params1[max_])
            ELSE IF OnlyMinConflict(params1)
            THEN SetItem(invalid1, min_, params1[min_])
            ELSE IF OnlyMaxConflict(params1)
            THEN SetItem(invalid1, max_, params1[max_])
            ELSE invalid1
        warnings2 ==
            IF BothConflict(params1)
            THEN SetDefault(SetDefault(warnings1, min_, <<"MIN_LENGTH">>),
                            max_, <<"MAX_LENGTH">>)
            ELSE IF OnlyMinConflict(params1)
            THEN SetDefault(warnings1, min_, <<"MIN_LENGTH_DEFAULT">>)
            ELSE IF OnlyMaxConflict(params1)
            THEN SetDefault(warnings1, max_, <<"MAX_LENGTH_DEFAULT">>)
            ELSE warnings1
        \* the invalid params are popped, the missing ones get the default
        kept == (DOMAIN params1) \ (DOMAIN invalid2)
    IN  [params |-> [key \in kept \cup supported_params |->
                        IF key \in kept THEN params1[key]
                        ELSE DefaultParam[key]],
         invalid_params |-> invalid2,
         warning_messages |-> warnings2]

\* The params dicts the function is called with: at most MaxParams keys.
MaxParams == 3

ParamKeys ==
    {"relative_min_length", "relative_max_length", "num_beams", "do_sample",
     "temperature", "non-existing-param"}

ParamValues ==
    {FloatValue(5), FloatValue(10), FloatValue(40), FloatValue(70),
     FloatValue(100), FloatValue(150), IntValue(-1), IntValue(0),
     IntValue(1), BoolValue(TRUE), StrValue}

ParamInputs ==
    UNION {[K -> ParamValues] :
              K \in {S \in SUBSET ParamKeys : Cardinality(S) <= MaxParams}}

InitParams ==
    /\ db = EmptyDB
    /\ now = 0
    /\ previous_cache_cleanup = 0
    /\ loop = "running"
    /\ \E p \in ParamInputs : last = [op |-> "params", input |-> p]
    /\ calls = 0
    /\ events = 0
    /\ requested = Carry(<<>>, EmptyDB)
    /\ topics = EmptyTopics
    /\ workers = IdleWorkers
    /\ thread = IdleThread

ValidateParams ==
    /\ last.op = "params"
    /\ last' = [op |-> "validate_params", input |-> last.input,
                params |-> validate_params_of(last.input).params,
                warnings |-> validate_params_of(last.input).warning_messages]
    /\ UNCHANGED <<db, now, previous_cache_cleanup, loop, calls, events,
                   requested, topics, workers, thread>>

SpecParams == InitParams /\ [][ValidateParams]_vars

\* The value x has the declared type of the param key and lies within its
\* inclusive bounds.
MeetsRequisites(key, x) ==
    /\ x.type = PARAMS_VALIDATION_REQUISITES[key].type_
    /\ "lower_bound" \in DOMAIN PARAMS_VALIDATION_REQUISITES[key]
           => x.v >= PARAMS_VALIDATION_REQUISITES[key].lower_bound
    /\ "upper_bound" \in DOMAIN PARAMS_VALIDATION_REQUISITES[key]
           => x.v <= PARAMS_VALIDATION_REQUISITES[key].upper_bound

Validated == last.op = "validate_params"

\* C26: whatever the keys and the values of the input dict, the params
\* that validate_params returns have exactly the 11 supported names as
\* keys, and every value is the default of its param or has the declared
\* type and lies within the declared bounds.
C26_CanonicalParams ==
    Validated
        => /\ DOMAIN last.params = DOMAIN DefaultParam
           /\ Cardinality(DOMAIN last.params) = 11
           /\ \A key \in DOMAIN last.params :
                  \/ last.params[key] = DefaultParam[key]
                  \/ MeetsRequisites(key, last.params[key])

\* An input with an unsupported key, a value out of its bounds and a valid
\* value that is not the default has been validated.
C26_Witness ==
    /\ Validated
    /\ "non-existing-param" \in DOMAIN last.input
    /\ "relative_max_length" \in DOMAIN last.input
    /\ last.input["relative_max_length"] = FloatValue(150)
    /\ "num_beams" \in DOMAIN last.input
    /\ last.input["num_beams"] = IntValue(1)
    /\ last.params["num_beams"] = IntValue(1)


\* The value validate_params works with for the param key of the input p
\* once the loop is done: the supplied one when it is valid, the default
\* when it is invalid or not supplied.
Effective(p, key) ==
    IF key \in DOMAIN p /\ MeetsRequisites(key, p[key])
    THEN p[key] ELSE DefaultParam[key]

\* C27: when relative_min_length is supplied without relative_max_length,
\* with a valid float within the bounds that is greater than or equal to
\* the default relative_max_length, the returned relative_min_length is
\* its default and the warnings have an entry for relative_min_length and
\* none for relative_max_length; and the same with min and max exchanged,
\* for a relative_max_length less than or equal to the default
\* relative_min_length.
C27_OnlyOneOfMinMax ==
    Validated
        => /\ (/\ "relative_min_length" \in DOMAIN last.input
               /\ "relative_max_length" \notin DOMAIN last.input
               /\ MeetsRequisites("relative_min_length",
                                  last.input["relative_min_length"])
               /\ last.input["relative_min_length"].v
                      >= DefaultParam["relative_max_length"].v)
                  => /\ last.params["relative_min_length"]
                            = DefaultParam["relative_min_length"]
                     /\ "relative_min_length" \in DOMAIN last.warnings
                     /\ "relative_max_length" \notin DOMAIN last.warnings
           /\ (/\ "relative_max_length" \in DOMAIN last.input
               /\ "relative_min_length" \notin DOMAIN last.input
               /\ MeetsRequisites("relative_max_length",
                                  last.input["relative_max_length"])
               /\ last.input["relative_max_length"].v
                      <= DefaultParam["relative_min_length"].v)
                  => /\ last.params["relative_max_length"]
                            = DefaultParam["relative_max_length"]
                     /\ "relative_max_length" \in DOMAIN last.warnings
                     /\ "relative_min_length" \notin DOMAIN last.warnings

\* relative_min_length 0.7 alone was validated: it is back at its default
\* and warned about.
C27_Witness ==
    /\ Validated
    /\ DOMAIN last.input = {"relative_min_length"}
    /\ last.input["relative_min_length"] = FloatValue(70)
    /\ last.params["relative_min_length"] = FloatValue(10)
    /\ DOMAIN last.warnings = {"relative_min_length"}

\* C28: when relative_min_length and relative_max_length are both
\* supplied, each one that is invalid by type or bounds counts as its
\* default, and when the min so obtained is not smaller than the max so
\* obtained, both are returned at their defaults and both have an entry in
\* the warnings.
C28_BothOfMinMax ==
    Validated
        => ((/\ "relative_min_length" \in DOMAIN last.input
             /\ "relative_max_length" \in DOMAIN last.input
             /\ Effective(last.input, "relative_min_length").v
                    >= Effective(last.input, "relative_max_length").v)
               => /\ last.params["relative_min_length"]
                         = DefaultParam["relative_min_length"]
                  /\ last.params["relative_max_length"]
                         = DefaultParam["relative_max_length"]
                  /\ "relative_min_length" \in DOMAIN last.warnings
                  /\ "relative_max_length" \in DOMAIN last.warnings)

\* relative_max_length 1.5 (out of range) and relative_min_length 0.7
\* (above the default max) were validated: both defaulted, both warned.
C28_Witness ==
    /\ Validated
    /\ DOMAIN last.input = {"relative_min_length", "relative_max_length"}
    /\ last.input["relative_max_length"] = FloatValue(150)
    /\ last.input["relative_min_length"] = FloatValue(70)
    /\ last.params["relative_min_length"] = FloatValue(10)
    /\ last.params["relative_max_length"] = FloatValue(40)
    /\ DOMAIN last.warnings = {"relative_min_length", "relative_max_length"}

\* The min and the max that validate_params works with are in order.
MinMaxOrdered(p) ==
    Effective(p, "relative_min_length").v
        < Effective(p, "relative_max_length").v

\* The value x lies on a bound declared for the param key.
OnBound(key, x) ==
    \/ /\ "lower_bound" \in DOMAIN PARAMS_VALIDATION_REQUISITES[key]
       /\ x.v = PARAMS_VALIDATION_REQUISITES[key].lower_bound
    \/ /\ "upper_bound" \in DOMAIN PARAMS_VALIDATION_REQUISITES[key]
       /\ x.v = PARAMS_VALIDATION_REQUISITES[key].upper_bound

C30_UnsupportedDropped ==
    Validated
        => /\ \A key \in (DOMAIN last.input) \ (DOMAIN DefaultParam) :
                 /\ key \notin DOMAIN last.params
                 /\ key \in DOMAIN last.warnings
           /\ (DOMAIN last.input) \ (DOMAIN DefaultParam) # {}
                 => \A key \in (DOMAIN last.input) \cap (DOMAIN DefaultParam) :
                       (/\ MeetsRequisites(key, last.input[key])
                        /\ key \in {"relative_min_length",
                                    "relative_max_length"}
                               => MinMaxOrdered(last.input))
                           => last.params[key] = last.input[key]

\* An unsupported key was validated together with a valid
\* relative_max_length of 0.7 and a valid do_sample.
C30_Witness ==
    /\ Validated
    /\ DOMAIN last.input =
           {"non-existing-param", "relative_max_length", "do_sample"}
    /\ last.input["relative_max_length"] = FloatValue(70)
    /\ last.params["relative_max_length"] = FloatValue(70)
    /\ last.params["do_sample"] = last.input["do_sample"]
    /\ last.input["do_sample"].type = "bool"
    /\ DOMAIN last.warnings = {"non-existing-param"}


\* C40: in the params that validate_params returns, relative_min_length
\* is strictly smaller than relative_max_length, whatever was supplied
\* for the two: nothing, a value of another type, a value out of range or
\* two values in the wrong order.
C40_MinBelowMax ==
    Validated
        => last.params["relative_min_length"].v
               < last.params["relative_max_length"].v

\* Only relative_max_length was supplied, with 0.1, the default of
\* relative_min_length: it was replaced by its default.
C40_Witness ==
    /\ Validated
    /\ DOMAIN last.input = {"relative_max_length", "num_beams"}
    /\ last.input["relative_max_length"] = FloatValue(10)
    /\ last.params["relative_min_length"] = FloatValue(10)
    /\ last.params["relative_max_length"] = FloatValue(40)


(***************************************************************************)
(* PlainTextRequestSchema.validate_and_set_defaults, the pre_load hook of  *)
(* the plain-text request schema.  The request body is a dict: a function  *)
(* from the field names the client sent to their values.                   *)
(***************************************************************************)
validate_and_set_defaults(data) ==
    LET supp_models == {T5_LARGE}
        supp_languages == {ENGLISH}
        \* the 'warnings' of the client are deleted
        data1 == Restrict(data, (DOMAIN data) \ {"warnings"})
        bad_model ==
            \/ "model" \notin DOMAIN data1
            \/ data1["model"] = None
            \/ data1["model"] \notin supp_models
        no_params ==
            "params" \notin DOMAIN data1 \/ data1["params"] = None
        bad_language ==
            \/ "language" \notin DOMAIN data1
            \/ data1["language"] = None
            \/ data1["language"] \notin supp_languages
        no_cache == "cache" \notin DOMAIN data1 \/ data1["cache"] = None
        data2 == IF bad_model THEN Put(data1, "model", T5_LARGE) ELSE data1
        data3 == IF no_params THEN Put(data2, "params", "{}") ELSE data2
        data4 == IF bad_language THEN Put(data3, "language", ENGLISH)
                 ELSE data3
        data5 == IF no_cache THEN Put(data4, "cache", "True") ELSE data4
        warning_msgs ==
            [k \in (IF bad_model THEN {"model"} ELSE {})
                       \cup (IF bad_language THEN {"language"} ELSE {}) |->
                IF k = "model" THEN <<"unsupported model">>
                ELSE <<"unsupported language">>]
    IN  IF DOMAIN warning_msgs # {}
        THEN Put(data5, "warnings", warning_msgs) ELSE data5

\* The request bodies: every field but source is sent or not, with None,
\* with a supported or with an unsupported value; cache as the JSON value.
RequestBodies ==
    LET Choices(field) ==
            IF field = "source" THEN {"a"}
            ELSE IF field = "model" THEN {None, T5_LARGE, "bart"}
            ELSE IF field = "params" THEN {None, "{}", "{'top_k': 1}"}
            ELSE IF field = "language" THEN {None, ENGLISH, "xx"}
            ELSE IF field = "cache" THEN {None, "True", "False"}
            ELSE {[k \in {"source"} |-> <<"sent by the client">>]}
    IN  UNION {{d \in [F \cup {"source"} -> UNION {Choices(f) : f \in
                                                    F \cup {"source"}}] :
                   \A f \in DOMAIN d : d[f] \in Choices(f)} :
               F \in SUBSET {"model", "params", "language", "cache"}}
        \cup
        UNION {{Put(d, "warnings",
                    [k \in {"source"} |-> <<"sent by the client">>]) :
                   d \in {e \in [F \cup {"source"} ->
                                    UNION {Choices(f) : f \in
                                                    F \cup {"source"}}] :
                             \A f \in DOMAIN e : e[f] \in Choices(f)}} :
               F \in SUBSET {"model", "params", "language", "cache"}}

InitRequest ==
    /\ db = EmptyDB
    /\ now = 0
    /\ previous_cache_cleanup = 0
    /\ loop = "running"
    /\ \E d \in RequestBodies : last = [op |-> "request", input |-> d]
    /\ calls = 0
    /\ events = 0
    /\ requested = Carry(<<>>, EmptyDB)
    /\ topics = EmptyTopics
    /\ workers = IdleWorkers
    /\ thread = IdleThread

\* PlainTextRequestSchema().load(body): the pre_load hook runs.
LoadRequest ==
    /\ last.op = "request"
    /\ last' = [op |-> "load", input |-> last.input,
                data |-> validate_and_set_defaults(last.input)]
    /\ UNCHANGED <<db, now, previous_cache_cleanup, loop, calls, events,
                   requested, topics, workers, thread>>

SpecRequest == InitRequest /\ [][LoadRequest]_vars

\* The fields of a loaded request whose value is not the one the client
\* sent: the field was missing or the loader put another value.
Substituted(input, data) ==
    {f \in {"model", "params", "language", "cache"} :
        f \notin DOMAIN input \/ input[f] # data[f]}

\* C31: the request loader puts the default model for a missing, None or
\* unsupported model, the default language likewise, {} for missing or
\* None params and true for a missing or None cache, keeps every other
\* value, drops the warnings of the client, and the warnings of the
\* loaded request have an entry for exactly the substituted fields.
C31_DefaultsAndWarnings ==
    last.op = "load"
        => LET input == last.input
               data == last.data
               Bad(f, supported) ==
                   \/ f \notin DOMAIN input
                   \/ input[f] = None
                   \/ input[f] \notin supported
               warnings == IF "warnings" \in DOMAIN data
                           THEN data["warnings"] ELSE EmptyDict
           IN  /\ data["model"] = IF Bad("model", {T5_LARGE})
                                  THEN T5_LARGE ELSE input["model"]
               /\ data["language"] = IF Bad("language", {ENGLISH})
                                     THEN ENGLISH ELSE input["language"]
               /\ data["params"] =
                      IF Bad("params", {"{}", "{'top_k': 1}"})
                      THEN "{}" ELSE input["params"]
               /\ data["cache"] = IF Bad("cache", {"True", "False"})
                                  THEN "True" ELSE input["cache"]
               /\ "warnings" \in DOMAIN input
                      => warnings # input["warnings"]
               /\ DOMAIN warnings = Substituted(input, data)


\* The tables d1 and d2 have the same source rows, the same summary rows
\* apart from request_count and the same bindings apart from
\* last_accessed.
SameRows(d1, d2) ==
    /\ d1.source = d2.source
    /\ DOMAIN d1.summary = DOMAIN d2.summary
    /\ \A s \in DOMAIN d1.summary :
          [d1.summary[s] EXCEPT !.request_count = 0]
              = [d2.summary[s] EXCEPT !.request_count = 0]
    /\ DOMAIN d1.id_raw_id_preprocessed = DOMAIN d2.id_raw_id_preprocessed
    /\ \A r \in DOMAIN d1.id_raw_id_preprocessed :
          [d1.id_raw_id_preprocessed[r] EXCEPT !.last_accessed = 0]
              = [d2.id_raw_id_preprocessed[r] EXCEPT !.last_accessed = 0]

\* C32: when the loop handles the PREPROCESSING message of a key right
\* after it has handled the same message, the second handling leaves the
\* source rows, the summary rows and the bindings as the first left them,
\* apart from request_count and last_accessed; and
\* in every state update_preprocessed_id(R, P) for a key R that is bound
\* to another id P changes no source row, no summary row and no binding
\* apart from last_accessed.
C32_PreprocessingTwice ==
    [][/\ (/\ Handled
           /\ last.op = PREPROCESSING
           /\ ~last.raised
           /\ last'.op = PREPROCESSING
           /\ last'.id = last.id)
              => SameRows(db, db')
       /\ \A r \in Bindings(db) :
             Binding(db, r).id_preprocessed # r
                 => SameRows(db, update_preprocessed_id(
                                     db, r, Binding(db, r).id_preprocessed,
                                     now))]_vars


\* One request was stored and the loop handled its PREPROCESSING message
\* twice in a row, forwarding it twice: its raw key is bound to the
\* preprocessed id and the artifact counts two requests.
C32_Witness ==
    /\ last.op = PREPROCESSING
    /\ ~last.raised
    /\ Len(last.sent) = 1
    /\ now = 0
    /\ calls = MaxCalls - 1
    /\ events = MaxEvents - 2
    /\ last.id \in Bindings(db)
    /\ Binding(db, last.id).id_preprocessed # last.id
    /\ SummaryFound(db, last.id)
    /\ SummaryRow(db, last.id).request_count = 2


\* C33: when the loop handles a PREPROCESSING message with key r that it
\* short-circuits (a completed summary is stored under the id p of the
\* preprocessed text, p differs from r, and r is bound to its own summary
\* row, which is not completed), afterwards no summary row r is stored,
\* r's binding targets p with the cache flag it had, and the summary row p
\* has the source row, the output, the status and the params it had.
C33_ShortCircuitKeepsTarget ==
    [][\A q \in Requests :
          LET r == RawId(q)
              p == PreprocessedId(q)
          IN  (/\ last'.op = PREPROCESSING
               /\ last'.id = r
               /\ r # p
               /\ r \in Bindings(db)
               /\ Binding(db, r).id_preprocessed = r
               /\ r \in DOMAIN db.summary
               /\ db.summary[r].status # COMPLETED
               /\ CompletedUnder(db, p))
              => /\ r \notin DOMAIN db'.summary
                 /\ r \in Bindings(db')
                 /\ Binding(db', r).id_preprocessed = p
                 /\ Binding(db', r).cache = Binding(db, r).cache
                 /\ p \in DOMAIN db'.summary
                 /\ db'.summary[p].source_id = db.summary[p].source_id
                 /\ db'.summary[p].source_id \in DOMAIN db'.source
                 /\ db'.source[db'.summary[p].source_id]
                        = db.source[db.summary[p].source_id]
                 /\ db'.summary[p].summary = db.summary[p].summary
                 /\ db'.summary[p].status = db.summary[p].status
                 /\ db'.summary[p].params = db.summary[p].params]_vars


(***************************************************************************)
(* The loop with messages of every status a stage may report: the status   *)
(* is a string of the message (ConsumedMsgSchema.summary_status) and every *)
(* status but PREPROCESSING takes the else branch of the loop.             *)
(***************************************************************************)
NextStatus ==
    \/ \E q \in Requests, cache \in BOOLEAN : InsertSummary(q, cache)
    \/ \E q \in Requests : ConsumePreprocessing(q)
    \/ \E q \in Requests, w \in StageWarnings,
          st \in {ENCODING, SUMMARIZING, COMPLETED, "failed"} :
          ConsumeStatus(q, st, w)

SpecStatus == Init /\ [][NextStatus]_vars

\* The columns of a summary row that a message of this status may change.
StatusColumns(status) ==
    IF status = COMPLETED
    THEN {"status", "warnings", "ended_at", "summary", "params"}
    ELSE {"status", "warnings"}

PollPreprocessing(q) ==
    LET msg == PreprocessingMsg(q)
        g1 == get_summary(db,
                          get_unique_key(msg.text_preprocessed, msg.model,
                                         msg.params),
                          now)
    IN  /\ loop = "running"
        /\ workers.dispatcher = <<>>
        /\ events > 0
        /\ events' = events - 1
        /\ db' = g1.db
        /\ requested' = Carry(requested, g1.db)
        /\ workers' =
               [workers EXCEPT !.dispatcher =
                   <<[msg |-> msg,
                      completed |-> g1.found /\ g1.status = COMPLETED]>>]
        /\ last' = [NoOp EXCEPT !.op = "poll", !.id = msg.key]
        /\ UNCHANGED <<now, previous_cache_cleanup, loop, calls, topics,
                       thread>>

FinishPreprocessing ==
    /\ workers.dispatcher # <<>>
    /\ LET msg == workers.dispatcher[1].msg
           id_preprocessed ==
               get_unique_key(msg.text_preprocessed, msg.model, msg.params)
           d2 == IF msg.key # id_preprocessed
                 THEN update_preprocessed_id(db, msg.key, id_preprocessed,
                                             now)
                 ELSE db
           g2 == get_summary(db, msg.key, now)
           d3 == update_source(g2.db, g2.source, msg.text_preprocessed,
                               msg.key, id_preprocessed, now)
           r == IF workers.dispatcher[1].completed
                THEN [db |-> increment_summary_count(d2, msg.key).db,
                      sent |-> <<>>, raised |-> FALSE, branch |-> "exists"]
                ELSE IF ~g2.found
                THEN [db |-> g2.db, sent |-> <<>>, raised |-> TRUE,
                      branch |-> "forward"]
                ELSE [db |-> increment_summary_count(d3, msg.key).db,
                      sent |-> <<EncodingMsg(msg)>>, raised |-> FALSE,
                      branch |-> "forward"]
       IN  /\ db' = r.db
           /\ requested' = Carry(requested, r.db)
           /\ loop' = IF r.raised THEN "raised" ELSE "running"
           /\ last' = [op |-> msg.summary_status, id |-> msg.key,
                       warnings |-> msg.warnings, branch |-> r.branch,
                       raised |-> r.raised, sent |-> r.sent]
           /\ thread' = Finally(thread, r.raised)
    /\ workers' = [workers EXCEPT !.dispatcher = <<>>]
    /\ UNCHANGED <<now, previous_cache_cleanup, calls, events, topics>>

NextInterleaved ==
    \/ \E q \in Requests, cache \in BOOLEAN : InsertSummary(q, cache)
    \/ \E id \in Ids : DeleteIfNotCache(id)
    \/ \E q \in Requests : PollPreprocessing(q)
    \/ FinishPreprocessing
    \/ /\ workers.dispatcher = <<>>
       /\ \E q \in Requests, st \in StageStatuses, w \in StageWarnings :
             ConsumeStatus(q, st, w)

SpecInterleaved == Init /\ [][NextInterleaved]_vars

\* C35: whatever delete_if_not_cache calls come between the statements of
\* the loop while it handles a PREPROCESSING message with key R, when the
\* handling ends R is bound to a stored artifact, and that artifact is
\* completed or a message for R was produced to the text-encoding topic.
\* Stated for the handlings at whose last step R still has its artifact.
C35_ForwardedOrCompleted ==
    [][(/\ workers.dispatcher # <<>>
        /\ workers'.dispatcher = <<>>
        /\ SummaryFound(db, last'.id))
          => /\ SummaryFound(db', last'.id)
             /\ \/ SummaryRow(db', last'.id).status = COMPLETED
                \/ /\ Len(last'.sent) = 1
                   /\ last'.sent[1].topic = TEXT_ENCODING
                   /\ last'.sent[1].key = last'.id]_vars


\* C36: in every state, the id that a binding targets has a binding of its
\* own that targets it: an artifact that update_source has renamed to the
\* id P of its preprocessed text is found by get_summary(P) as long as
\* some binding targets P.
C36_TargetHasOwnBinding ==
    \A r \in Bindings(db) :
        /\ Binding(db, r).id_preprocessed \in Bindings(db)
        /\ SummaryFound(db, Binding(db, r).id_preprocessed)
        /\ get_summary(db, Binding(db, r).id_preprocessed, now).summary_id
               = Binding(db, r).id_preprocessed


(***************************************************************************)
(* The sweep of the loop.  consumer.poll(timeout=1.0) returns after one    *)
(* second when no message arrives, so a running loop comes back to the     *)
(* head of its while again and again: the sweep that is due is run (weak   *)
(* fairness of CleanupCache), and time passes (weak fairness of Tick).     *)
(***************************************************************************)
NextSweep ==
    \/ \E q \in Requests, cache \in BOOLEAN : InsertSummary(q, cache)
    \/ \E id \in Ids : GetSummary(id)
    \/ \E q \in Requests, st \in StageStatuses, w \in StageWarnings :
          ConsumeStatus(q, st, w)
    \/ CleanupCache
    \/ Tick

SpecSweep ==
    Init /\ [][NextSweep]_vars /\ WF_vars(CleanupCache) /\ WF_vars(Tick)

\* The bindings of d that target the summary row p.
BindingsTo(d, p) ==
    {r \in Bindings(d) : Binding(d, r).id_preprocessed = p}

\* C37: a sweep that is due is eventually run while the loop is running,
\* and a completed artifact whose bindings are all not cached and were
\* last accessed at time 0 is eventually removed with its bindings, unless
\* it is accessed again, gets a cached binding, is no longer completed, or
\* the loop has stopped running.
C37_SweepEventuallyRemoves ==
    /\ (loop = "running" /\ CleanupDue(now, previous_cache_cleanup))
           ~> (loop # "running" \/ ~CleanupDue(now, previous_cache_cleanup))
    /\ \A p \in Ids :
          (/\ p \in DOMAIN db.summary
           /\ db.summary[p].status = COMPLETED
           /\ BindingsTo(db, p) # {}
           /\ \A r \in BindingsTo(db, p) :
                 ~Binding(db, r).cache /\ Binding(db, r).last_accessed = 0)
              ~> \/ p \notin DOMAIN db.summary /\ BindingsTo(db, p) = {}
                 \/ /\ p \in DOMAIN db.summary
                    /\ db.summary[p].status # COMPLETED
                 \/ \E r \in BindingsTo(db, p) :
                       Binding(db, r).cache
                           \/ Binding(db, r).last_accessed > 0
                 \/ loop # "running"


(***************************************************************************)
(* The files dispatcher: POST of a document for text extraction.  The      *)
(* database holds the tables extracted_text_doc and                        *)
(* file_id_extracted_text_id, both keyed by the id of the request; the     *)
(* message produced to the extraction topic is recorded in last.           *)
(***************************************************************************)
\* get_extracted_text(id_): the UPDATE of last_accessed and the SELECT are
\* committed; a row that was found has seven columns, so the constructor
\* call that reads extracted_text_row[7] raises IndexError, the except
\* branch logs it and the method returns None, as it does for no row.
get_extracted_text(d, id_, t) ==
    LET touched ==
            [d EXCEPT !.file_id_extracted_text_id =
                [f \in DOMAIN @ |->
                    IF f = id_ THEN [@[f] EXCEPT !.last_accessed = t]
                    ELSE @[f]]]
        found ==
            /\ id_ \in DOMAIN d.file_id_extracted_text_id
            /\ d.file_id_extracted_text_id[id_].content_id
                   \in DOMAIN d.extracted_text_doc
    IN [db |-> touched,
        extracted_text |-> IF found THEN None ELSE None]

\* insert_extracted_text(extracted_text, file_extension, cache): the two
\* INSERTs in one transaction; an id that has a row already makes the
\* INSERT fail, the error is logged and nothing is committed.
insert_extracted_text(d, extracted_text, file_extension, cache, t) ==
    IF \/ extracted_text.id_ \in DOMAIN d.extracted_text_doc
       \/ extracted_text.id_ \in DOMAIN d.file_id_extracted_text_id
    THEN d
    ELSE [extracted_text_doc |->
              [c \in DOMAIN d.extracted_text_doc \cup {extracted_text.id_} |->
                  IF c = extracted_text.id_
                  THEN [content |-> extracted_text.content,
                        start_page |-> extracted_text.start_page,
                        end_page |-> extracted_text.end_page,
                        status |-> extracted_text.status]
                  ELSE d.extracted_text_doc[c]],
          file_id_extracted_text_id |->
              [f \in DOMAIN d.file_id_extracted_text_id
                         \cup {extracted_text.id_} |->
                  IF f = extracted_text.id_
                  THEN [content_id |-> extracted_text.id_,
                        cache |-> cache,
                        file_type |-> file_extension,
                        last_accessed |-> t]
                  ELSE d.file_id_extracted_text_id[f]]]

\* The tables before the service starts: any of the requests has been
\* stored, with any status, by the three-argument insert_extracted_text at
\* time 0; the clock of the service is at 1.
InitFiles ==
    /\ \E stored \in [{<<s, e>> : s \in {1, 11}, e \in {1, 11}} ->
                          {None, "extracting", "completed", "failed"}] :
          LET RECURSIVE Fill(_, _)
              Fill(d, todo) ==
                  IF todo = {} THEN d
                  ELSE LET p == CHOOSE q \in todo : TRUE
                       IN Fill(IF stored[p] = None THEN d
                               ELSE insert_extracted_text(
                                        d,
                                        [id_ |-> file_get_unique_key(
                                                     "x", p[1], p[2]),
                                         content |-> None,
                                         start_page |-> p[1],
                                         end_page |-> p[2],
                                         status |-> stored[p]],
                                        "pdf", FALSE, 0),
                               todo \ {p})
          IN db = Fill([extracted_text_doc |-> <<>>,
                        file_id_extracted_text_id |-> <<>>],
                       DOMAIN stored)
    /\ now = 1
    /\ previous_cache_cleanup = 0
    /\ loop = "running"
    /\ last = [op |-> "init", id |-> None, produced |-> <<>>,
               raised |-> FALSE]
    /\ calls = 0
    /\ events = 0
    /\ requested = Carry(<<>>, EmptyDB)
    /\ topics = EmptyTopics
    /\ workers = IdleWorkers
    /\ thread = IdleThread

\* TextExtraction.post from the computation of message_key on.  With a
\* record that is not failed, the f-string of the debug message reads
\* extracted_text.start_pagee and raises AttributeError.  Otherwise the call
\* insert_extracted_text(extracted_text) gives one of the three required
\* arguments and raises TypeError before the method is entered: nothing is
\* inserted, _produce_message is not reached, the response is an error.
PostFile ==
    /\ calls < MaxCalls
    /\ \E start_page \in {1, 11}, end_page \in {1, 11} :
          LET message_key == file_get_unique_key("x", start_page, end_page)
              got == get_extracted_text(db, message_key, now)
              exists == /\ got.extracted_text # None
                        /\ got.extracted_text.status # "failed"
          IN /\ db' = got.db
             /\ last' = [op |-> "post", id |-> message_key,
                         produced |-> <<>>,
                         raised |-> IF exists THEN TRUE ELSE TRUE]
    /\ calls' = calls + 1
    /\ UNCHANGED <<now, previous_cache_cleanup, loop, events, requested,
                   topics, workers, thread>>

SpecFiles == InitFiles /\ [][PostFile]_vars

\* C38: a POST of a file request whose id has an extracted-text record
\* with a status other than failed leaves the two tables as they are and
\* produces no message; a POST whose id has no record, or a failed one,
\* leaves a record with status extracting under the id and produces
\* exactly one extraction message with the id as its key.
C38_PostFile ==
    [][last'.op = "post" =>
          LET id_ == last'.id
              Stored(d) == id_ \in DOMAIN d.extracted_text_doc
          IN IF Stored(db) /\ db.extracted_text_doc[id_].status # "failed"
             THEN /\ db'.extracted_text_doc = db.extracted_text_doc
                  /\ DOMAIN db'.file_id_extracted_text_id
                         = DOMAIN db.file_id_extracted_text_id
                  /\ last'.produced = <<>>
             ELSE /\ Stored(db')
                  /\ db'.extracted_text_doc[id_].status = "extracting"
                  /\ last'.produced
                         = <<[topic |-> "doc-text-extraction", key |-> id_]>>
      ]_vars


\* C39: in every step of the encoder, the summarizer or the postprocessor,
\* each message appended to a topic has the key of the message the worker
\* consumed; the step in which the encoder (the summarizer) consumes a
\* message appends its status update, and nothing else, to the dispatcher
\* topic and nothing to the next stage; the step in which the
\* postprocessor consumes a message appends one completed event, and
\* nothing else, to the topics.
C39_WorkersKeepKeyAndOrder ==
    [][last'.op \in {"encoder", "summarizer", "postprocessor"} =>
          LET Names == {"text_encoding", "text_summarization",
                        "text_postprocessing", "dispatcher"}
              Taken(t) ==
                  {topics[t][k][1] : k \in {j \in Ids :
                      Len(topics'[t][j]) < Len(topics[t][j])}}
              Added(t) ==
                  {topics'[t][k][Len(topics'[t][k])] : k \in {j \in Ids :
                      /\ Len(topics'[t][j]) > 0
                      /\ \/ Len(topics'[t][j]) > Len(topics[t][j])
                         \/ /\ Len(topics'[t][j]) = Len(topics[t][j])
                            /\ topics'[t][j] # topics[t][j]}}
              Grown(t) ==
                  {k \in Ids : Len(topics'[t][k]) = Len(topics[t][k]) + 1}
              consumed ==
                  IF last'.op = "encoder"
                  THEN IF workers.encoder = <<>>
                       THEN Taken("text_encoding") ELSE {workers.encoder[1]}
                  ELSE IF last'.op = "summarizer"
                  THEN IF workers.summarizer = <<>>
                       THEN Taken("text_summarization")
                       ELSE {workers.summarizer[1].msg}
                  ELSE Taken("text_postprocessing")
          IN /\ Cardinality(consumed) = 1
             /\ \A t \in Names : \A m \in Added(t) : \A c \in consumed :
                   m.key = c.key
             /\ Taken("text_encoding") # {} =>
                   /\ Added("dispatcher")
                          = {WorkerStatusMsg(c.key, ENCODING, Nothing) :
                                 c \in consumed}
                   /\ \A t \in Names \ {"dispatcher"} : Added(t) = {}
             /\ Taken("text_summarization") # {} =>
                   /\ Added("dispatcher")
                          = {WorkerStatusMsg(c.key, SUMMARIZING, Nothing) :
                                 c \in consumed}
                   /\ \A t \in Names \ {"dispatcher"} : Added(t) = {}
             /\ Taken("text_postprocessing") # {} =>
                   /\ \A m \in Added("dispatcher") :
                         m.summary_status = COMPLETED
                   /\ Cardinality(Grown("dispatcher")) = 1
                   /\ \A k \in Ids :
                         Len(topics'.dispatcher[k])
                             <= Len(topics.dispatcher[k]) + 1
                   /\ \A t \in Names \ {"dispatcher"} : Added(t) = {}
      ]_vars

\* The postprocessor has produced the completed event of a request whose
\* message went through the encoder and the summarizer.
C39_Witness ==
    /\ last.op = "postprocessor"
    /\ \E k \in Ids : \E i \in DOMAIN topics.dispatcher[k] :
          /\ topics.dispatcher[k][i].summary_status = COMPLETED
          /\ topics.dispatcher[k][i].key = k
====
